---- MODULE Spec2Model ----
(***************************************************************************)
(* A model of PySEAL's "sealed" package: the encoders of sealed/encode.py  *)
(* and the ciphertext algebra of sealed/models.py.                         *)
(*                                                                         *)
(* The homomorphic engine (sealed/cpp/wrapper.cpp over SEAL v2.3) is not   *)
(* part of the Python sources.  It is modelled at the level of the         *)
(* plaintext ring Z_t[x]/(x^n + 1): a ciphertext handle carries the        *)
(* plaintext polynomial it decrypts to and its size, and every engine      *)
(* primitive acts on that polynomial exactly.  Noise is not modelled.      *)
(***************************************************************************)
EXTENDS Integers, Sequences, FiniteSets, TLC

(***************************************************************************)
(* Bounds of the model.                                                    *)
(***************************************************************************)
\* integers handed to encrypt / used as plaintext operands: -MaxInt..MaxInt
MaxInt == 3
\* exponents handed to ** : -1..MaxPow
MaxPow == 4
\* the number of statements that may update x after it was encrypted
MaxDepth == 1
\* bases tried by the encoder round trip: 2..MaxBase
MaxBase == 4
\* values tried by the encoder round trip: -MaxVal..MaxVal
MaxVal == 9
\* budgets given to the fixed-point encoder as counts: -1..MaxBudget
MaxBudget == 5

(***************************************************************************)
(* Python values.  One record shape for every value the model hands to the *)
(* library: ty is the runtime type, v/den an int (den = 1) or a float      *)
(* v/den, dtype/shape/data a numpy array flattened row-major.              *)
(***************************************************************************)
PyInt(k) ==
    [ty |-> "int", v |-> k, den |-> 1, dtype |-> "", shape |-> <<>>, data |-> <<>>]

PyFloat(k, d) ==
    [ty |-> "float", v |-> k, den |-> d, dtype |-> "", shape |-> <<>>, data |-> <<>>]

PyArray(dt, sh, dat) ==
    [ty |-> "ndarray", v |-> 0, den |-> 1, dtype |-> dt, shape |-> sh, data |-> dat]

PyStr ==
    [ty |-> "str", v |-> 0, den |-> 1, dtype |-> "", shape |-> <<>>, data |-> <<>>]

\* a tuple of two ints
PyTuple(a, b) ==
    [ty |-> "tuple", v |-> 0, den |-> 1, dtype |-> "", shape |-> <<>>, data |-> <<a, b>>]

PyNone ==
    [ty |-> "None", v |-> 0, den |-> 1, dtype |-> "", shape |-> <<>>, data |-> <<>>]

\* floats of the model are multiples of 1/FloatDen
FloatDen == 4
\* powers of two are looked for up to 2^MaxExp
MaxExp == 6
\* a key generator makes at most MaxKeys keys
MaxKeys == 7

(***************************************************************************)
(* Arithmetic helpers.                                                     *)
(***************************************************************************)
RECURSIVE Pow(_, _)
Pow(b, e) == IF e <= 0 THEN 1 ELSE b * Pow(b, e - 1)

Abs(k) == IF k < 0 THEN -k ELSE k

RECURSIVE SumTo(_, _)
\* f[1] + ... + f[k]
SumTo(f, k) == IF k = 0 THEN 0 ELSE f[k] + SumTo(f, k - 1)

(***************************************************************************)
(* SEALContext (sealed/primitives.py): n = degree of the polynomial        *)
(* modulus x^n + 1, qbits = significant bits of the coefficient modulus,   *)
(* t = plaintext modulus.                                                  *)
(***************************************************************************)
Context(n, qbits, t) == [n |-> n, qbits |-> qbits, t |-> t]

poly_mod_deg(context) == context.n

SEALContext_eq(c1, c2) ==
    /\ c1.n + 1 = c2.n + 1
    /\ c1.qbits = c2.qbits
    /\ c1.t = c2.t

(***************************************************************************)
(* The plaintext ring Z_t[x]/(x^n + 1).  A plaintext is the sequence of    *)
(* its n coefficients, p[i] the coefficient of x^(i-1), each in 0..t-1.    *)
(* A batched plaintext is kept in its slot representation (the CRT image   *)
(* of the ring, where ring addition and multiplication act slot by slot);  *)
(* rep tells the two apart.                                                *)
(***************************************************************************)
Plaintext(rep, coeffs) == [rep |-> rep, c |-> coeffs]

NoPlain == Plaintext("none", <<>>)

ZeroCoeffs(n) == [i \in 1..n |-> 0]

\* the representative of c in -(t-1)/2 .. t/2 that SEAL's decoders use
Threshold(t) == (t + 1) \div 2

Centered(c, t) == IF c >= Threshold(t) THEN c - t ELSE c

PolyAdd(p, q, t) ==
    Plaintext(p.rep, [i \in 1..Len(p.c) |-> (p.c[i] + q.c[i]) % t])

PolyNeg(p, t) ==
    Plaintext(p.rep, [i \in 1..Len(p.c) |-> (t - p.c[i]) % t])

\* coefficient k (1-based) of p*q in Z[x]/(x^n + 1): x^n wraps to -1
NegacyclicCoeff(p, q, k) ==
    LET n == Len(p)
        term(i) == LET j == k - i + 1
                   IN  IF j >= 1 THEN p[i] * q[j] ELSE 0 - p[i] * q[j + n]
    IN  SumTo([i \in 1..n |-> term(i)], n)

PolyMul(p, q, t) ==
    IF p.rep = "slots"
    THEN Plaintext("slots", [i \in 1..Len(p.c) |-> (p.c[i] * q.c[i]) % t])
    ELSE Plaintext(p.rep, [k \in 1..Len(p.c) |-> NegacyclicCoeff(p.c, q.c, k) % t])

PolyIsZero(p) == \A i \in 1..Len(p.c) : p.c[i] = 0

(***************************************************************************)
(* Results.  A call either returns a value or raises; tag is "ok" or the   *)
(* name of the exception.                                                  *)
(***************************************************************************)
\* an encoder object: kind is the class (IntEncoder, FloatEncoder,
\* IntMatrixEncoder), the other fields are its attributes
EncoderObj(kind, context, base, unsigned, integral, fractional, rows, cols) ==
    [kind |-> kind, context |-> context, base |-> base, unsigned |-> unsigned,
     integral |-> integral, fractional |-> fractional, rows |-> rows, cols |-> cols]

NoEnc == EncoderObj("none", Context(0, 0, 0), 0, FALSE, 0, 0, 0, 0)

EncodeResult(tag, plain, enc) == [tag |-> tag, plain |-> plain, enc |-> enc]

DecodeResult(tag, val) == [tag |-> tag, val |-> val]

(***************************************************************************)
(* Engine encoders: IntegerEncoder, FractionalEncoder, PolyCRTBuilder.     *)
(*                                                                         *)
(* Two answers of the engine are settled neither by the Python sources nor *)
(* by the description of the engine, so the engine of a run is a choice    *)
(* made once, when the program starts:                                     *)
(*   composeShort  what PolyCRTBuilder.compose does with fewer values than *)
(*                 the ring has slots: "refuse" them or "pad" with zeros;  *)
(*   emptyBudget   what the constructor of FractionalEncoder does with a   *)
(*                 coefficient count that is not positive: "refuse" it or  *)
(*                 "accept" it.                                            *)
(***************************************************************************)
VARIABLE engine

Engines == [composeShort : {"refuse", "pad"}, emptyBudget : {"refuse", "accept"}]

\* the engine that refuses both
StrictEngine == [composeShort |-> "refuse", emptyBudget |-> "refuse"]

RECURSIVE BinaryDigits(_)
\* the binary expansion of m >= 0, least significant digit first
BinaryDigits(m) ==
    IF m = 0 THEN <<>> ELSE <<m % 2>> \o BinaryDigits(m \div 2)

RECURSIVE BalancedDigits(_, _)
\* the balanced base-b expansion of v: digits in -(b-1)/2..(b-1)/2 for odd
\* b and in -b/2..(b-1)/2 for even b, least significant digit first
BalancedDigits(v, b) ==
    IF v = 0 THEN <<>>
    ELSE LET r == v % b
             d == IF r > (b - 1) \div 2 THEN r - b ELSE r
         IN  <<d>> \o BalancedDigits((v - d) \div b, b)

\* the signed digits of v in the given base
IntegerDigits(v, base) ==
    IF base = 2
    THEN LET ds == BinaryDigits(Abs(v))
         IN  [i \in 1..Len(ds) |-> IF v < 0 THEN 0 - ds[i] ELSE ds[i]]
    ELSE BalancedDigits(v, base)

\* IntegerEncoder.encode: one coefficient per digit, negative digits stored
\* modulo the plaintext modulus
IntegerEncoder_encode(v, base, t) ==
    LET ds == IntegerDigits(v, base)
    IN  Plaintext("coeff", [i \in 1..Len(ds) |-> ds[i] % t])

\* the polynomial evaluated at x = base on centered coefficients
EvalAt(c, base, t) ==
    SumTo([i \in 1..Len(c) |-> Centered(c[i], t) * Pow(base, i - 1)], Len(c))

IntegerEncoder_decode_int64(p, base, t) ==
    DecodeResult("ok", PyInt(EvalAt(p.c, base, t)))

\* the unsigned path refuses a polynomial that evaluates below zero
IntegerEncoder_decode_uint64(p, base, t) ==
    LET val == EvalAt(p.c, base, t)
    IN  IF val < 0 THEN DecodeResult("ValueError", PyNone)
        ELSE DecodeResult("ok", PyInt(val))

\* the constructor of FractionalEncoder, after the checks of FloatEncoder
FractionalEncoder_init(integral, fractional) ==
    IF (integral <= 0 \/ fractional <= 0) /\ engine.emptyBudget = "refuse"
    THEN "ValueError"
    ELSE "ok"

RECURSIVE FractionDigits(_, _, _, _)
\* the first k base-b digits of the fraction fp/den, most significant first
FractionDigits(fp, den, b, k) ==
    IF k = 0 THEN <<>>
    ELSE <<(fp * b) \div den>> \o FractionDigits((fp * b) % den, den, b, k - 1)

\* FractionalEncoder.encode of the float v/den: the integer part at the low
\* end, the first fractional digits at the high end with flipped sign
\* (x^(n-i) = -x^(-i)), the whole polynomial negated for a negative value
FractionalEncoder_encode(v, den, n, t, integral, fractional, base) ==
    LET m == Abs(v)
        place(ids, fds) ==
            Plaintext("coeff", [i \in 1..n |->
                                   IF i <= Len(ids) THEN ids[i] % t
                                   ELSE IF i > n - fractional THEN (0 - fds[n - i + 1]) % t
                                   ELSE 0])
        signed(poly) == IF v < 0 THEN PolyNeg(poly, t) ELSE poly
        encoded(ids) ==
            IF Len(ids) > integral
            THEN EncodeResult("ValueError", NoPlain, NoEnc)
            ELSE EncodeResult("ok",
                              signed(place(ids, FractionDigits(m % den, den, base,
                                                               fractional))),
                              NoEnc)
    IN  encoded(IntegerDigits(m \div den, base))

\* FractionalEncoder.decode: the coefficients below the fractional block
\* are the integer part; the result is a float with denominator base^fractional
FractionalEncoder_decode(p, n, t, fractional, base) ==
    LET ipart == EvalAt(SubSeq(p.c, 1, n - fractional), base, t)
        fpart == SumTo([i \in 1..fractional |->
                          (0 - Centered(p.c[n - i + 1], t)) * Pow(base, fractional - i)],
                       fractional)
        scale == Pow(base, fractional)
    IN  DecodeResult("ok", PyFloat(ipart * scale + fpart, scale))

\* PolyCRTBuilder.compose: one value per slot, reduced modulo t; more values
\* than slots are refused
PolyCRTBuilder_compose(values, n, t) ==
    IF Len(values) > n \/ (Len(values) < n /\ engine.composeShort = "refuse")
    THEN EncodeResult("ValueError", NoPlain, NoEnc)
    ELSE EncodeResult("ok",
                      Plaintext("slots", [i \in 1..n |->
                                            IF i <= Len(values) THEN values[i] % t ELSE 0]),
                      NoEnc)

\* PolyCRTBuilder.decompose followed by reading the coefficients back
PolyCRTBuilder_decompose(p) == p.c

\* the plaintext as PolyCRTBuilder.decompose leaves it: decompose works in
\* place, and the coefficients of the plaintext are the values of the slots
PolyCRTBuilder_decomposed(p) == Plaintext("coeff", p.c)

IsPrime(k) == k >= 2 /\ \A d \in 2..(k - 1) : k % d # 0

(***************************************************************************)
(* sealed/encode.py.  kw holds the keyword arguments of a constructor:     *)
(* base, unsigned, integral, fractional (Python ints or floats), rows,     *)
(* cols.                                                                   *)
(***************************************************************************)
Kwargs(base, unsigned, integral, fractional, rows, cols) ==
    [base |-> base, unsigned |-> unsigned, integral |-> integral,
     fractional |-> fractional, rows |-> rows, cols |-> cols]

\* the defaults of the three constructors
DefaultKwargs == Kwargs(2, FALSE, PyFloat(2, 5), PyFloat(2, 5), 0, 0)

InitResult(tag, enc) == [tag |-> tag, enc |-> enc]

\* the constructors of IntegerEncoder and of FractionalEncoder take a base
\* of 2 or more
IntegerEncoder_init(base) == IF base < 2 THEN "ValueError" ELSE "ok"

IntEncoder_init(context, kw) ==
    IF IntegerEncoder_init(kw.base) # "ok"
    THEN InitResult(IntegerEncoder_init(kw.base), NoEnc)
    ELSE InitResult("ok", EncoderObj("int", context, kw.base, kw.unsigned, 0, 0, 0, 0))

IntEncoder_encode(enc, plain) ==
    IF plain.ty # "int"
    THEN EncodeResult("TypeError", NoPlain, enc)
    ELSE IF enc.unsigned /\ plain.v < 0
    THEN EncodeResult("TypeError", NoPlain, enc)
    ELSE EncodeResult("ok", IntegerEncoder_encode(plain.v, enc.base, enc.context.t), enc)

\* IntEncoder.decode with the two branches exchanged
IntEncoder_decode_Swapped(enc, encoded) ==
    IF enc.unsigned
    THEN IntegerEncoder_decode_int64(encoded, enc.base, enc.context.t)
    ELSE IntegerEncoder_decode_uint64(encoded, enc.base, enc.context.t)

IntEncoder_decode(enc, encoded) ==
    IF enc.unsigned
    THEN IntegerEncoder_decode_uint64(encoded, enc.base, enc.context.t)
    ELSE IntegerEncoder_decode_int64(encoded, enc.base, enc.context.t)

\* a budget given as a float is a fraction of the degree, int(f * degree)
ResolveBudget(arg, deg) ==
    IF arg.ty = "float" THEN (arg.v * deg) \div arg.den ELSE arg.v

FloatBudgetValid(arg) ==
    arg.ty = "float" => (0 <= arg.v /\ arg.v <= arg.den)

\* FloatEncoder_init without the test of the sum of the budgets
FloatEncoder_init_NoSumTest(context, kw) ==
    LET deg        == poly_mod_deg(context)
        integral   == ResolveBudget(kw.integral, deg)
        fractional == ResolveBudget(kw.fractional, deg)
    IN  IF ~FloatBudgetValid(kw.integral) THEN InitResult("TypeError", NoEnc)
        ELSE IF ~FloatBudgetValid(kw.fractional) THEN InitResult("TypeError", NoEnc)
        ELSE IF FractionalEncoder_init(integral, fractional) # "ok"
        THEN InitResult(FractionalEncoder_init(integral, fractional), NoEnc)
        ELSE InitResult("ok", EncoderObj("float", context, kw.base, FALSE,
                                         integral, fractional, 0, 0))

FloatEncoder_init(context, kw) ==
    LET deg        == poly_mod_deg(context)
        integral   == ResolveBudget(kw.integral, deg)
        fractional == ResolveBudget(kw.fractional, deg)
    IN  IF ~FloatBudgetValid(kw.integral) THEN InitResult("TypeError", NoEnc)
        ELSE IF ~FloatBudgetValid(kw.fractional) THEN InitResult("TypeError", NoEnc)
        ELSE IF integral + fractional > deg THEN InitResult("TypeError", NoEnc)
        ELSE IF FractionalEncoder_init(integral, fractional) # "ok"
        THEN InitResult(FractionalEncoder_init(integral, fractional), NoEnc)
        ELSE IF IntegerEncoder_init(kw.base) # "ok"
        THEN InitResult(IntegerEncoder_init(kw.base), NoEnc)
        ELSE InitResult("ok", EncoderObj("float", context, kw.base, FALSE,
                                         integral, fractional, 0, 0))

FloatEncoder_encode(enc, plain) ==
    IF plain.ty # "float"
    THEN EncodeResult("TypeError", NoPlain, enc)
    ELSE LET returned(r) == EncodeResult(r.tag, r.plain, enc)
         IN  returned(FractionalEncoder_encode(plain.v, plain.den, enc.context.n,
                                               enc.context.t, enc.integral,
                                               enc.fractional, enc.base))

FloatEncoder_decode(enc, encoded) ==
    FractionalEncoder_decode(encoded, enc.context.n, enc.context.t,
                             enc.fractional, enc.base)

\* rows > 0 and cols > 0 reads self._context before it is assigned
\* IntMatrixEncoder.__init__ run on the object self: a new object has no
\* attribute (kind "none"), an object that __setstate__ has filled has
\* its _context
IntMatrixEncoder_init_self(self, context, kw) ==
    LET n == poly_mod_deg(context)
        t == context.t
    IN  IF ~(IsPrime(t) /\ t % (2 * n) = 1) THEN InitResult("TypeError", NoEnc)
        ELSE IF kw.rows > 0 /\ kw.cols > 0 /\ self.kind = "none"
        THEN InitResult("AttributeError", NoEnc)
        ELSE IF kw.rows > 0 /\ kw.cols > 0
                /\ kw.rows * kw.cols # poly_mod_deg(self.context)
        THEN InitResult("TypeError", NoEnc)
        ELSE InitResult("ok", EncoderObj("mat", context, 0, FALSE, 0, 0, kw.rows, kw.cols))

\* IntMatrixEncoder(context, **kw): __init__ on a new object
IntMatrixEncoder_init(context, kw) == IntMatrixEncoder_init_self(NoEnc, context, kw)

\* IntMatrixEncoder_encode taking the shape from every matrix it is handed
IntMatrixEncoder_encode_Relearns(enc, plain) ==
    IF plain.ty = "ndarray" /\ Len(plain.shape) = 2 /\ plain.dtype = "int"
    THEN LET enc1 == [enc EXCEPT !.rows = plain.shape[1], !.cols = plain.shape[2]]
         IN  IF enc1.rows * enc1.cols # poly_mod_deg(enc.context)
             THEN EncodeResult("TypeError", NoPlain, enc1)
             ELSE EncodeResult("ok", Plaintext("slots", [i \in 1..Len(plain.data) |->
                                                           plain.data[i] % enc.context.t]),
                               enc1)
    ELSE EncodeResult("TypeError", NoPlain, enc)

\* the encoder comes back with the result: encode assigns _rows and _cols
\* before it checks them
IntMatrixEncoder_encode(enc, plain) ==
    IF plain.ty = "ndarray" /\ Len(plain.shape) = 2 /\ plain.dtype = "int"
    THEN LET infer == enc.rows <= 0 /\ enc.cols <= 0
             enc1  == IF infer
                      THEN [enc EXCEPT !.rows = plain.shape[1], !.cols = plain.shape[2]]
                      ELSE enc
         IN  IF infer /\ enc1.rows * enc1.cols # poly_mod_deg(enc.context)
             THEN EncodeResult("TypeError", NoPlain, enc1)
             ELSE IF plain.shape[1] = enc1.rows /\ plain.shape[2] = enc1.cols
             THEN LET returned(r) == EncodeResult(r.tag, r.plain, enc1)
                  IN  returned(PolyCRTBuilder_compose(plain.data, enc.context.n,
                                                      enc.context.t))
             ELSE EncodeResult("TypeError", NoPlain, enc1)
    ELSE EncodeResult("TypeError", NoPlain, enc)

IntMatrixEncoder_decode(enc, encoded) ==
    LET plain_list == PolyCRTBuilder_decompose(encoded)
    IN  IF enc.rows * enc.cols # Len(plain_list)
        THEN DecodeResult("ValueError", PyNone)
        ELSE DecodeResult("ok", PyArray("int", <<enc.rows, enc.cols>>, plain_list))

\* the plaintext handed to decode, after decode: IntMatrixEncoder.decode
\* decomposes it in place before it reshapes, the two other classes only
\* read it
Encoder_decode_encoded(enc, encoded) ==
    IF enc.kind = "mat" THEN PolyCRTBuilder_decomposed(encoded) ELSE encoded

\* self.encode / self.decode on an encoder of any class
Encoder_encode(enc, plain) ==
    CASE enc.kind = "int"   -> IntEncoder_encode(enc, plain)
      [] enc.kind = "float" -> FloatEncoder_encode(enc, plain)
      [] enc.kind = "mat"   -> IntMatrixEncoder_encode(enc, plain)
      [] OTHER              -> EncodeResult("NotImplementedError", NoPlain, enc)

Encoder_decode(enc, encoded) ==
    CASE enc.kind = "int"   -> IntEncoder_decode(enc, encoded)
      [] enc.kind = "float" -> FloatEncoder_decode(enc, encoded)
      [] enc.kind = "mat"   -> IntMatrixEncoder_decode(enc, encoded)
      [] OTHER              -> DecodeResult("NotImplementedError", PyNone)

\* can_encode: only a TypeError of encode means "no"; any other exception
\* of encode leaves can_encode as that exception
CanEncodeResult(tag, can, enc) == [tag |-> tag, can |-> can, enc |-> enc]

Encoder_can_encode(enc, plain) ==
    LET caught(r) ==
            IF r.tag = "TypeError" THEN CanEncodeResult("ok", FALSE, r.enc)
            ELSE IF r.tag = "ok" THEN CanEncodeResult("ok", TRUE, r.enc)
            ELSE CanEncodeResult(r.tag, FALSE, r.enc)
    IN  caught(Encoder_encode(enc, plain))

\* Encoder_eq with the comparison of the attributes left out
Encoder_eq_SameClass(e1, e2) ==
    e1.kind = e2.kind

\* Encoder_eq as the comparison of two objects by identity: two encoders
\* constructed one after the other are never the same object
Encoder_eq_Identity(e1, e2) == FALSE

\* the attributes compared are those of _ATTRIBUTES of the class
Encoder_eq(e1, e2) ==
    /\ e1.kind = e2.kind
    /\ SEALContext_eq(e1.context, e2.context)
    /\ CASE e1.kind = "int"   -> e1.base = e2.base /\ e1.unsigned = e2.unsigned
         [] e1.kind = "float" -> /\ e1.integral = e2.integral
                                 /\ e1.fractional = e2.fractional
                                 /\ e1.base = e2.base
         [] e1.kind = "mat"   -> e1.rows = e2.rows /\ e1.cols = e2.cols
         [] OTHER             -> TRUE

\* _ATTRIBUTES of the class, the names without their underscore
Attributes(kind) ==
    CASE kind = "int"   -> {"context", "base", "unsigned"}
      [] kind = "float" -> {"context", "integral", "fractional", "base"}
      [] kind = "mat"   -> {"context", "rows", "cols"}
      [] OTHER          -> {}

\* _ATTRIBUTES is a set: the orders in which its names may come
Orders(names) ==
    {order \in [1..Cardinality(names) -> names] :
        \A i, j \in 1..Cardinality(names) : order[i] = order[j] => i = j}

\* the Python type of the value of an attribute
AttributeType(name) ==
    CASE name = "context"  -> "SEALContext"
      [] name = "unsigned" -> "bool"
      [] OTHER             -> "int"

\* Encoder.__getstate__: the values of the attributes, in the order in
\* which the interpreter that dumps iterates the set of the names
Encoder_getstate(self, order) ==
    [i \in 1..Len(order) |-> [ty |-> AttributeType(order[i]), v |-> self[order[i]]]]

\* a bool where an int is meant is 0 or 1; an int where a bool is meant is
\* true unless it is 0
AsInt(val) == IF val.ty = "bool" THEN (IF val.v THEN 1 ELSE 0) ELSE val.v

AsBool(val) == IF val.ty = "bool" THEN val.v ELSE val.v # 0

\* Encoder.__setstate__ on a new object of the class kind: the names, in
\* the order in which the interpreter that loads iterates their set, are
\* zipped with the state, the attributes are set, and __init__ of the
\* class runs with them as keyword arguments.  Every __init__ begins with
\* a method call on context, which only a SEALContext has.
Encoder_setstate(kind, state, order) ==
    LET attrs == [name \in Attributes(kind) |->
                     state[CHOOSE i \in 1..Len(order) : order[i] = name]]
        self  == [NoEnc EXCEPT !.kind = kind, !.context = attrs["context"].v]
    IN  IF attrs["context"].ty # "SEALContext"
        THEN InitResult("AttributeError", NoEnc)
        ELSE CASE kind = "int" ->
                 IntEncoder_init(attrs["context"].v,
                                 [DefaultKwargs EXCEPT
                                     !.base = AsInt(attrs["base"]),
                                     !.unsigned = AsBool(attrs["unsigned"])])
          [] kind = "float" ->
                 FloatEncoder_init(attrs["context"].v,
                                   [DefaultKwargs EXCEPT
                                       !.integral = PyInt(AsInt(attrs["integral"])),
                                       !.fractional = PyInt(AsInt(attrs["fractional"])),
                                       !.base = AsInt(attrs["base"])])
          [] kind = "mat" ->
                 IntMatrixEncoder_init_self(self, attrs["context"].v,
                                            [DefaultKwargs EXCEPT
                                                !.rows = AsInt(attrs["rows"]),
                                                !.cols = AsInt(attrs["cols"])])
          [] OTHER -> InitResult("NotImplementedError", NoEnc)

\* Encoder(plain, context, **kwargs): the encoder for a value or for a type
\* request ("type:int", "type:float", "type:ndarray"); a type request
\* encodes nothing
NewResult(tag, encoded, enc) == [tag |-> tag, encoded |-> encoded, enc |-> enc]

\* Encoder_new without the final raise: what is neither a matrix nor a
\* float goes to the integer encoder
Encoder_new_NoFallback(plain, context, kw) ==
    LET returned(r) ==
            IF r.tag = "ok" THEN NewResult("ok", r.plain, r.enc)
            ELSE NewResult(r.tag, NoPlain, NoEnc)
        build(init, isType) ==
            IF init.tag # "ok" THEN NewResult(init.tag, NoPlain, NoEnc)
            ELSE IF isType THEN NewResult("ok", NoPlain, init.enc)
            ELSE returned(Encoder_encode(init.enc, plain))
    IN  IF plain.ty \in {"ndarray", "type:ndarray"}
        THEN build(IntMatrixEncoder_init(context, kw), plain.ty = "type:ndarray")
        ELSE IF plain.ty \in {"float", "type:float"}
        THEN build(FloatEncoder_init(context, kw), plain.ty = "type:float")
        ELSE build(IntEncoder_init(context, kw), plain.ty = "type:int")

Encoder_new(plain, context, kw) ==
    LET returned(r) ==
            IF r.tag = "ok" THEN NewResult("ok", r.plain, r.enc)
            ELSE NewResult(r.tag, NoPlain, NoEnc)
        build(init, isType) ==
            IF init.tag # "ok" THEN NewResult(init.tag, NoPlain, NoEnc)
            ELSE IF isType THEN NewResult("ok", NoPlain, init.enc)
            ELSE returned(Encoder_encode(init.enc, plain))
    IN  IF plain.ty \in {"ndarray", "type:ndarray"}
        THEN build(IntMatrixEncoder_init(context, kw), plain.ty = "type:ndarray")
        ELSE IF plain.ty \in {"int", "type:int"}
        THEN build(IntEncoder_init(context, kw), plain.ty = "type:int")
        ELSE IF plain.ty \in {"float", "type:float"}
        THEN build(FloatEncoder_init(context, kw), plain.ty = "type:float")
        ELSE NewResult("NotImplementedError", NoPlain, NoEnc)

(***************************************************************************)
(* Engine primitives: Encryptor, Decryptor, Evaluator.  A Ciphertext       *)
(* handle is the plaintext it decrypts to and its size (the number of      *)
(* ring components): 2 when fresh, growing under multiplication.           *)
(***************************************************************************)
Ciphertext(poly, size) == [poly |-> poly, size |-> size]

NoCipher == Ciphertext(NoPlain, 0)

EngineResult(tag, cipher) == [tag |-> tag, cipher |-> cipher]

\* a plaintext with fewer than n coefficients, filled up with zeros
PadTo(p, n) ==
    Plaintext(p.rep, [i \in 1..n |-> IF i <= Len(p.c) THEN p.c[i] ELSE 0])

Max2(i, j) == IF i >= j THEN i ELSE j

\* a plaintext with more coefficients than the ring has is refused
Encryptor_encrypt(encoded, context) ==
    IF Len(encoded.c) > context.n
    THEN EngineResult("ValueError", NoCipher)
    ELSE EngineResult("ok", Ciphertext(PadTo(encoded, context.n), 2))

Decryptor_decrypt(cipher) == cipher.poly

Evaluator_add(c1, c2, context) ==
    Ciphertext(PolyAdd(c1.poly, c2.poly, context.t), Max2(c1.size, c2.size))

Evaluator_add_plain(c, plain, context) ==
    Ciphertext(PolyAdd(c.poly, PadTo(plain, context.n), context.t), c.size)

Evaluator_negate(c, context) ==
    Ciphertext(PolyNeg(c.poly, context.t), c.size)

Evaluator_multiply(c1, c2, context) ==
    Ciphertext(PolyMul(c1.poly, c2.poly, context.t), c1.size + c2.size - 1)

\* engineZero is what the engine does with a plaintext that is identically
\* zero: "ok" to multiply by it, or the exception it raises
Evaluator_multiply_plain(c, plain, context, engineZero) ==
    IF PolyIsZero(plain) /\ engineZero # "ok"
    THEN EngineResult(engineZero, NoCipher)
    ELSE EngineResult("ok", Ciphertext(PolyMul(c.poly, PadTo(plain, context.n), context.t),
                                       c.size))

Evaluator_relinearize(c, context) == Ciphertext(c.poly, 2)

\* The slots of a batched plaintext are a matrix of two rows of n/2 slots.
\* rotate_rows turns each of the two rows by steps places to the left (to
\* the right for negative steps); rotate_columns swaps the two rows.
Evaluator_rotate_rows(c, steps, context) ==
    LET w == context.n \div 2
    IN  Ciphertext(Plaintext(c.poly.rep,
                             [i \in 1..context.n |->
                                 c.poly.c[((i - 1) \div w) * w + ((i - 1 + steps) % w) + 1]]),
                   c.size)

Evaluator_rotate_columns(c, context) ==
    LET w == context.n \div 2
    IN  Ciphertext(Plaintext(c.poly.rep,
                             [i \in 1..context.n |-> c.poly.c[((i - 1 + w) % context.n) + 1]]),
                   c.size)

(***************************************************************************)
(* sealed/models.py: CipherText.  Two fields are history, read by no       *)
(* operation: plain is the value the ciphertext's first ancestor was       *)
(* encrypted from and ops the operators applied since.                     *)
(***************************************************************************)
\* Evaluator(context): the binding of the engine to the parameters
Evaluator(context) == [context |-> context]

CipherText_init(cipher, context, encoder) ==
    [cipher |-> cipher, context |-> context, encoder |-> encoder,
     evl |-> Evaluator(context), plain |-> PyNone, ops |-> <<>>]

NoCt == CipherText_init(NoCipher, Context(0, 0, 0), NoEnc)

\* __copy__ with the _cipher replaced
init_new(self, cipher) ==
    [CipherText_init(self.cipher, self.context, self.encoder)
        EXCEPT !.cipher = cipher, !.plain = self.plain, !.ops = self.ops]

\* an operand of an operator: a CipherText or a plain Python value
CtOperand(ct) == [isCt |-> TRUE, ct |-> ct, plain |-> PyNone]

PlainOperand(plain) == [isCt |-> FALSE, ct |-> NoCt, plain |-> plain]

PyCipherText ==
    [ty |-> "CipherText", v |-> 0, den |-> 1, dtype |-> "", shape |-> <<>>, data |-> <<>>]

\* the operand as the encoders see it
AsPlain(other) == IF other.isCt THEN PyCipherText ELSE other.plain

\* the outcome of a method or operator: tag is "ok", "NotImplemented" or an
\* exception; muls counts the Evaluator.multiply calls made, mulPlains the
\* Evaluator.multiply_plain calls, addPlains the Evaluator.add_plain calls;
\* encoder is the encoder object of self as the call leaves it, which the
\* returned ciphertext shares
OpResult(tag, val, muls, mulPlains, addPlains) ==
    [tag |-> tag, val |-> val, muls |-> muls, mulPlains |-> mulPlains,
     addPlains |-> addPlains, encoder |-> val.encoder]

\* the outcome r of a call that leaves the encoder of self as encoder
Left(r, encoder) == [r EXCEPT !.encoder = encoder]

NotImplemented == OpResult("NotImplemented", NoCt, 0, 0, 0)

Raised(tag) == OpResult(tag, NoCt, 0, 0, 0)

\* CipherText.__add__ handing two ciphertexts to the multiply primitive
CipherText_add_Multiplies(self, other) ==
    IF other.isCt /\ Encoder_eq(self.encoder, other.ct.encoder)
    THEN OpResult("ok", init_new(self, Evaluator_multiply(self.cipher, other.ct.cipher,
                                                          self.context)), 0, 0, 0)
    ELSE NotImplemented

\* can_encode runs encode on self._encoder, and encode may assign the
\* encoder's shape: the second encode meets the encoder the first one left,
\* and so does everything that holds the object afterwards
CipherText_add(self, other) ==
    LET add_plain(encoded) ==
            OpResult("ok",
                     init_new([self EXCEPT !.encoder = encoded.enc],
                              Evaluator_add_plain(self.cipher, encoded.plain,
                                                  self.context)),
                     0, 0, 1)
        elif(can) ==
            IF can.tag # "ok" THEN Left(Raised(can.tag), can.enc)
            ELSE IF can.can
            THEN add_plain(Encoder_encode(can.enc, AsPlain(other)))
            ELSE Left(NotImplemented, can.enc)
    IN  IF other.isCt /\ Encoder_eq(self.encoder, other.ct.encoder)
        THEN OpResult("ok", init_new(self, Evaluator_add(self.cipher, other.ct.cipher,
                                                         self.context)), 0, 0, 0)
        ELSE elif(Encoder_can_encode(self.encoder, AsPlain(other)))

CipherText_radd(self, other) == CipherText_add(self, other)

CipherText_neg(self) ==
    OpResult("ok", init_new(self, Evaluator_negate(self.cipher, self.context)), 0, 0, 0)

\* a binary operator whose left operand's method returned res: Python
\* raises TypeError when no operand implements the operation
PyOperator(res) ==
    IF res.tag = "NotImplemented" THEN Left(Raised("TypeError"), res.encoder) ELSE res

\* CipherText.__sub__ returning self + (-other)
CipherText_sub_SelfMinusOther(self, other) ==
    IF other.isCt /\ Encoder_eq(self.encoder, other.ct.encoder)
    THEN PyOperator(CipherText_add(self, CtOperand(CipherText_neg(other.ct).val)))
    ELSE NotImplemented

\* CipherText.__sub__ taking the operands that __add__ takes
CipherText_sub_LikeAdd(self, other) ==
    CipherText_add(CipherText_neg(self).val, other)

\* no encode runs: the sum is one of two ciphertexts
CipherText_sub(self, other) ==
    Left(IF other.isCt /\ Encoder_eq(self.encoder, other.ct.encoder)
         THEN PyOperator(CipherText_add(other.ct, CtOperand(CipherText_neg(self).val)))
         ELSE NotImplemented,
         self.encoder)

\* is0 / is0f: the outcome of "other is 0" and of "other is 0.0", two
\* comparisons of object identity; can_encode runs before them, so the
\* encoder is the one encode left also where a zero is turned away
CipherText_mul(self, other, is0, is0f, engineZero) ==
    LET returned(r, encoder) ==
            IF r.tag # "ok" THEN Left(Raised(r.tag), encoder)
            ELSE OpResult("ok", init_new([self EXCEPT !.encoder = encoder], r.cipher),
                          0, 1, 0)
        multiply_plain(encoded) ==
            returned(Evaluator_multiply_plain(self.cipher, encoded.plain,
                                              self.context, engineZero),
                     encoded.enc)
        elif(can) ==
            IF can.tag # "ok" THEN Left(Raised(can.tag), can.enc)
            ELSE IF can.can /\ ~is0 /\ ~is0f
            THEN multiply_plain(Encoder_encode(can.enc, AsPlain(other)))
            ELSE Left(NotImplemented, can.enc)
    IN  IF other.isCt /\ Encoder_eq(self.encoder, other.ct.encoder)
        THEN OpResult("ok", init_new(self, Evaluator_multiply(self.cipher, other.ct.cipher,
                                                              self.context)), 1, 0, 0)
        ELSE elif(Encoder_can_encode(self.encoder, AsPlain(other)))

CipherText_rmul(self, other, is0, is0f, engineZero) ==
    CipherText_mul(self, other, is0, is0f, engineZero)

\* self * self: the operands are one object, so the encoders are equal
CipherText_square(self) ==
    PyOperator(CipherText_mul(self, CtOperand(self), FALSE, FALSE, "ok"))

RECURSIVE CipherText_pow_NoIdentity(_, _)
\* CipherText_pow without "if power == 1: return self"
CipherText_pow_NoIdentity(self, power) ==
    IF power.ty = "int" /\ power.v >= 1
    THEN LET sq   == CipherText_square(self)
             half == PyOperator(CipherText_pow_NoIdentity(sq.val, PyInt(power.v \div 2)))
         IN  IF half.tag # "ok" THEN half
             ELSE IF power.v % 2 = 0
             THEN [half EXCEPT !.muls = sq.muls + half.muls]
             ELSE LET pr == PyOperator(CipherText_mul(self, CtOperand(half.val),
                                                      FALSE, FALSE, "ok"))
                  IN  [pr EXCEPT !.muls = sq.muls + half.muls + pr.muls]
    ELSE NotImplemented

RECURSIVE CipherText_pow_OddAsEven(_, _)
\* CipherText_pow with the odd exponents taking the branch of the even ones
CipherText_pow_OddAsEven(self, power) ==
    IF power.ty = "int" /\ power.v >= 1
    THEN IF power.v = 1
         THEN OpResult("ok", self, 0, 0, 0)
         ELSE LET sq   == CipherText_square(self)
                  half == PyOperator(CipherText_pow_OddAsEven(sq.val, PyInt(power.v \div 2)))
              IN  [half EXCEPT !.muls = sq.muls + half.muls]
    ELSE NotImplemented

RECURSIVE CipherText_pow(_, _)
\* sq is self._square(), half the power of it and pr the product self * half
CipherText_pow(self, power) ==
    LET odd(sq, half, pr) == [pr EXCEPT !.muls = sq.muls + half.muls + pr.muls]
        branch(sq, half) ==
            IF power.v % 2 = 0
            THEN [half EXCEPT !.muls = sq.muls + half.muls]
            ELSE odd(sq, half, PyOperator(CipherText_mul(self, CtOperand(half.val),
                                                         FALSE, FALSE, "ok")))
        squared(sq) ==
            branch(sq, PyOperator(CipherText_pow(sq.val, PyInt(power.v \div 2))))
    IN  IF power.ty = "int" /\ power.v >= 1
        THEN IF power.v = 1
             THEN OpResult("ok", self, 0, 0, 0)
             ELSE squared(CipherText_square(self))
        ELSE Left(NotImplemented, self.encoder)

CipherText_size(self) == self.cipher.size

\* CipherText.__getstate__
CipherText_getstate(self) == <<self.cipher, self.context, self.encoder>>

\* CipherText.__setstate__ on a new object: the three parts are assigned
\* and a new Evaluator is made of the context
CipherText_setstate(state) == CipherText_init(state[1], state[2], state[3])

\* pickle.loads(pickle.dumps(self)): pickle stores the three parts of the
\* state, the encoder as the state its own __getstate__ returns, and
\* rebuilds them in turn.  _ATTRIBUTES is a set of strings: dump is the
\* order in which the interpreter that dumps iterates it and load the
\* order of the interpreter that loads, the same order when they are one
\* interpreter and any two orders when they are not.  self is only read.
pickle_loads_dumps(self, dump, load) ==
    LET state == CipherText_getstate(self)
        loaded(encoder) ==
            IF encoder.tag # "ok" THEN Left(Raised(encoder.tag), self.encoder)
            ELSE Left(OpResult("ok",
                               CipherText_setstate(<<state[1], state[2], encoder.enc>>),
                               0, 0, 0),
                      self.encoder)
    IN  loaded(Encoder_setstate(state[3].kind, Encoder_getstate(state[3], dump), load))

CipherText_decrypt(self) ==
    Encoder_decode(self.encoder, Decryptor_decrypt(self.cipher))

\* CipherText_roll_int rotating the rows for any shift on axis 0
CipherText_roll_int_Chains(self, shift, axis) ==
    IF axis = 0
    THEN OpResult("ok", init_new(self, Evaluator_rotate_columns(self.cipher, self.context)),
                  0, 0, 0)
    ELSE OpResult("ok", init_new(self, Evaluator_rotate_rows(self.cipher, 0 - shift,
                                                             self.context)),
                  0, 0, 0)

\* CipherText.roll for an int shift, below the assertion on axis
CipherText_roll_int(self, shift, axis) ==
    IF axis = 0 /\ shift \notin {0 - 1, 0, 1}
    THEN Left(Raised("TypeError"), self.encoder)
    ELSE IF axis = 0
    THEN OpResult("ok", init_new(self, Evaluator_rotate_columns(self.cipher, self.context)),
                  0, 0, 0)
    ELSE OpResult("ok", init_new(self, Evaluator_rotate_rows(self.cipher, 0 - shift,
                                                             self.context)),
                  0, 0, 0)

\* CipherText.roll(gk, shift, axis): shift an int or a tuple of two ints
CipherText_roll(self, shift, axis) ==
    LET rolled(rolled_rows, by) ==
            IF rolled_rows.tag # "ok" THEN rolled_rows
            ELSE CipherText_roll_int(rolled_rows.val, by, 1)
    IN  IF axis \notin {0, 1} THEN Left(Raised("AssertionError"), self.encoder)
        ELSE IF shift.ty = "tuple"
        THEN IF shift.data[1] = 0 THEN CipherText_roll_int(self, shift.data[2], 1)
             ELSE IF shift.data[2] = 0 THEN CipherText_roll_int(self, shift.data[1], 0)
             ELSE rolled(CipherText_roll_int(self, shift.data[1], 0), shift.data[2])
        ELSE CipherText_roll_int(self, shift.v, axis)

\* CipherText.relinearize returning its operand
CipherText_relinearize_Same(self) == OpResult("ok", self, 0, 0, 0)

CipherText_relinearize(self) ==
    OpResult("ok", init_new(self, Evaluator_relinearize(self.cipher, self.context)),
             0, 0, 0)

\* CipherScheme.encrypt
CipherScheme_encrypt(context, plain, kw) ==
    LET returned(encoder, r) ==
            IF r.tag # "ok" THEN Raised(r.tag)
            ELSE OpResult("ok",
                          [CipherText_init(r.cipher, context, encoder)
                              EXCEPT !.plain = plain],
                          0, 0, 0)
        encrypt(new) ==
            IF new.tag # "ok" THEN Raised(new.tag)
            ELSE returned(new.enc, Encryptor_encrypt(new.encoded, context))
    IN  encrypt(Encoder_new(plain, context, kw))

(***************************************************************************)
(* The binary operators as Python evaluates them with a ciphertext self    *)
(* and an operand other standing on its right (side "left": self op other) *)
(* or on its left (side "right": other op self).  The left operand's       *)
(* method runs first and the reflected method of the right operand runs    *)
(* when it returns NotImplemented.  int and float implement no operator    *)
(* with a CipherText.  A numpy array implements every one of them, as a    *)
(* loop over its elements that applies the operator between the element,   *)
(* a Python int or float, and the ciphertext, and that returns the array   *)
(* of the results (tag "ndarray") or raises what an element raised.        *)
(***************************************************************************)
IsArray(other) == ~other.isCt /\ other.plain.ty = "ndarray"

\* the elements of an array as numpy hands them to the operator
Elements(arr) ==
    [i \in 1..Len(arr.data) |->
        PlainOperand(IF arr.dtype = "int" THEN PyInt(arr.data[i])
                     ELSE PyFloat(arr.data[i] * FloatDen, FloatDen))]

\* the outcome of the loop, given the outcome rs[i] for every element and
\* the encoder of the ciphertext as the loop met it: the elements are
\* Python ints and floats, from which no encode takes a shape, so the
\* encoder is the same before and after every element
ndarray_binop(rs, encoder) ==
    LET bad == {i \in 1..Len(rs) : rs[i].tag # "ok"}
    IN  IF bad = {}
        THEN Left(OpResult("ndarray", NoCt,
                           SumTo([i \in 1..Len(rs) |-> rs[i].muls], Len(rs)),
                           SumTo([i \in 1..Len(rs) |-> rs[i].mulPlains], Len(rs)),
                           SumTo([i \in 1..Len(rs) |-> rs[i].addPlains], Len(rs))),
                  encoder)
        ELSE LET first == CHOOSE i \in bad : \A j \in bad : i <= j
             IN  \* the loop ends at the first element that raises; the calls
                 \* made for the elements before it have been made
                 Left(OpResult(rs[first].tag, NoCt,
                               SumTo([i \in 1..Len(rs) |-> rs[i].muls], first - 1),
                               SumTo([i \in 1..Len(rs) |-> rs[i].mulPlains], first - 1),
                               SumTo([i \in 1..Len(rs) |-> rs[i].addPlains], first - 1)),
                      encoder)

\* self + other, other + self
\* (ndarray.__radd__ runs after self.__add__(other) returned NotImplemented,
\* on the ciphertext s whose encoder that call left)
PyAdd(self, other, side) ==
    LET method(s, o) ==
            IF side = "left" THEN CipherText_add(s, o) ELSE CipherText_radd(s, o)
        loop(s) == ndarray_binop([i \in 1..Len(other.plain.data) |->
                                     PyOperator(method(s, Elements(other.plain)[i]))],
                                 s.encoder)
        reflected(r) ==
            IF r.tag = "NotImplemented" /\ IsArray(other)
            THEN loop([self EXCEPT !.encoder = r.encoder])
            ELSE PyOperator(r)
    IN  IF side = "right" /\ IsArray(other) THEN loop(self)
        ELSE reflected(method(self, other))

\* self - other, other - self; CipherText has no __rsub__
PySub(self, other, side) ==
    LET method(o) ==
            IF side = "left" THEN CipherText_sub(self, o)
            ELSE Left(NotImplemented, self.encoder)
        loop == ndarray_binop([i \in 1..Len(other.plain.data) |->
                                  PyOperator(method(Elements(other.plain)[i]))],
                              self.encoder)
        reflected(r) ==
            IF r.tag = "NotImplemented" /\ IsArray(other) THEN loop ELSE PyOperator(r)
    IN  IF side = "right" /\ IsArray(other) THEN loop
        ELSE reflected(method(other))

\* self ** power: neither int nor float implements ** with a CipherText;
\* for an array, ndarray.__rpow__ runs after self.__pow__(power) returned
\* NotImplemented and raises self to every element in turn
PyPow(self, power) ==
    LET loop == ndarray_binop([i \in 1..Len(power.data) |->
                                  PyOperator(CipherText_pow(
                                                 self, Elements(power)[i].plain))],
                              self.encoder)
        reflected(r) ==
            IF r.tag = "NotImplemented" /\ power.ty = "ndarray" THEN loop
            ELSE PyOperator(r)
    IN  reflected(CipherText_pow(self, power))

\* every int 0 is one object; a float 0.0 is the constant of __mul__ or not
Is0(other) == ~other.isCt /\ other.plain.ty = "int" /\ other.plain.v = 0

IsFloatZero(other) == ~other.isCt /\ other.plain.ty = "float" /\ other.plain.v = 0

\* self * other, other * self; the floats numpy makes of the elements of an
\* array are new objects, none of them the constant 0.0 of __mul__
PyMul(self, other, side, is0f, engineZero) ==
    LET method(s, o, isConstant) ==
            IF side = "left"
            THEN CipherText_mul(s, o, Is0(o), isConstant, engineZero)
            ELSE CipherText_rmul(s, o, Is0(o), isConstant, engineZero)
        loop(s) == ndarray_binop([i \in 1..Len(other.plain.data) |->
                                     PyOperator(method(s, Elements(other.plain)[i],
                                                       FALSE))],
                                 s.encoder)
        reflected(r) ==
            IF r.tag = "NotImplemented" /\ IsArray(other)
            THEN loop([self EXCEPT !.encoder = r.encoder])
            ELSE PyOperator(r)
    IN  IF side = "right" /\ IsArray(other) THEN loop(self)
        ELSE reflected(method(self, other, is0f))

(***************************************************************************)
(* The inputs of the model.                                                *)
(***************************************************************************)
\* (degree, coefficient-modulus bits, plaintext modulus): 17 is prime and
\* 1 modulo 2*4, so the first context allows batching; the second does not
Contexts == {Context(4, 27, 17), Context(4, 27, 5)}

KwBase3 == [DefaultKwargs EXCEPT !.base = 3]

KwUnsigned == [DefaultKwargs EXCEPT !.unsigned = TRUE]

KwBudgets == [DefaultKwargs EXCEPT !.integral = PyInt(2), !.fractional = PyInt(2)]

KwShape == [DefaultKwargs EXCEPT !.rows = 2, !.cols = 2]

\* a shape that does not fill a ring of degree 4
KwShapeWide == [DefaultKwargs EXCEPT !.rows = 2, !.cols = 4]

IntPlains == {PyInt(k) : k \in (0 - MaxInt)..MaxInt}

\* -0.5, 0.0, 0.25, 0.5, 1.5
FloatPlains == {PyFloat(k, FloatDen) : k \in {0 - 2, 0, 1, 2, 6}}

MatA == PyArray("int", <<2, 2>>, <<1, 2, 3, 0>>)

MatB == PyArray("int", <<2, 2>>, <<9, 16, 0, 1>>)

MatWide == PyArray("int", <<1, 4>>, <<1, 1, 2, 3>>)

MatSmall == PyArray("int", <<2, 1>>, <<1, 2>>)

MatFloat == PyArray("float", <<2, 2>>, <<1, 2, 3, 0>>)

\* np.zeros((0, 4), int): an array without elements
MatEmpty == PyArray("int", <<0, 4>>, <<>>)

MatPlains == {MatA, MatB, MatWide, MatSmall, MatFloat}

\* what encrypt is called with: a value and the keyword arguments
EncryptInputs ==
    (IntPlains \X {DefaultKwargs, KwBase3, KwUnsigned})
        \cup (FloatPlains \X {DefaultKwargs, KwBase3, KwBudgets})
        \cup (MatPlains \X {DefaultKwargs, KwShape})
        \cup {<<PyStr, DefaultKwargs>>}

\* the second ciphertexts of the binary operators
OtherInputs ==
    {<<PyInt(0 - 1), DefaultKwargs>>, <<PyInt(2), DefaultKwargs>>,
     <<PyInt(MaxInt), DefaultKwargs>>,
     <<PyInt(2), KwBase3>>, <<PyInt(1), KwUnsigned>>,
     <<PyFloat(2, FloatDen), DefaultKwargs>>, <<PyFloat(6, FloatDen), KwBudgets>>,
     <<MatA, DefaultKwargs>>, <<MatB, DefaultKwargs>>, <<MatWide, DefaultKwargs>>}

\* the plain operands of the mixed operators
PlainOperands ==
    {PyInt(0), PyInt(2), PyInt(0 - 1), PyFloat(0, FloatDen), PyFloat(2, FloatDen),
     MatA, MatWide, MatSmall, MatEmpty, MatFloat, PyStr}

\* np.array([2, 3])
VecPowers == PyArray("int", <<2>>, <<2, 3>>)

\* the exponents: ints from -1 up, the float 2.0, and three arrays
Powers ==
    {PyInt(k) : k \in (0 - 1)..MaxPow}
        \cup {PyFloat(2 * FloatDen, FloatDen), VecPowers, MatA, MatFloat}

(***************************************************************************)
(* The state: a program holding one scheme context ctx and one ciphertext  *)
(* x.  It encrypts x, or makes x by the constructor of CipherText with an   *)
(* encoder that has no shape yet, updates an encrypted x by statements     *)
(* combining x with itself (x = -x, x = x + x, x = x - x, x = x * x), and  *)
(* ends with one statement y = ... over x: any operator with any operand,  *)
(* a decryption, or a round trip through pickle.  last is the record of    *)
(* the statement it executed last; a statement that assigns y leaves in x  *)
(* the operand as the call left it.                                        *)
(* A second program works on one encoder enc alone: it constructs enc and  *)
(* calls encode and decode on it; call is the record of its last call.     *)
(***************************************************************************)
(***************************************************************************)
(* The scheme facade.  CipherScheme(poly_mod_deg, plain_mod, coeff_mod,    *)
(* security) checks its arguments with assert, hands them to the engine    *)
(* and keeps the context and a key generator.  The degrees of the model    *)
(* are small powers of two; a coefficient modulus is known to the context  *)
(* by its size in bits, which is all that == reads of it.                  *)
(***************************************************************************)
\* a & b on Python ints: two's complement with the sign extended
RECURSIVE BitAnd(_, _)
BitAnd(a, b) ==
    IF a = 0 \/ b = 0 THEN 0
    ELSE IF a = 0 - 1 THEN b
    ELSE IF b = 0 - 1 THEN a
    ELSE (a % 2) * (b % 2) + 2 * BitAnd(a \div 2, b \div 2)

is_pow_of_two(num) ==
    num.ty = "int" /\ BitAnd(num.v, num.v - 1) = 0 /\ num.v # 0

\* BigUInt.significant_bit_count(): the bits of k without leading zeros
RECURSIVE significant_bit_count(_)
significant_bit_count(k) ==
    IF k <= 0 THEN 0 ELSE 1 + significant_bit_count(k \div 2)

\* coeff_modulus_128(n) and coeff_modulus_192(n): the size in bits of the
\* coefficient modulus the engine recommends for the degree n
coeff_modulus(security, n) ==
    IF security = 128 THEN (27 * n) \div 4 ELSE (19 * n) \div 4

Params(deg, t, q, sec) ==
    [poly_mod_deg |-> deg, plain_mod |-> t, coeff_mod |-> q, security |-> sec]

\* KeyGenerator(context): the key pair it holds and the number of keys it
\* has made so far; key material is known by the number of its making
KeyGenerator(key, made) == [key |-> key, made |-> made]

NoKeygen == KeyGenerator(0, 0)

\* the facade: how its construction ended, the arguments, _context, _keygen
Scheme(tag, params, context, keygen) ==
    [tag |-> tag, params |-> params, context |-> context, keygen |-> keygen]

NoScheme ==
    Scheme("none", Params(PyNone, PyNone, PyNone, 0), Context(0, 0, 0), NoKeygen)

\* CipherScheme.__init__; answer is what the engine does with a plaintext
\* modulus that is an int but not positive: "ok", or the exception it raises.
\* Only AssertionError is turned into ValueError.
CipherScheme_init(params, answer) ==
    LET failed(tag) == Scheme(tag, params, Context(0, 0, 0), NoKeygen)
        qbits ==
            IF params.coeff_mod.v <= 0
            THEN coeff_modulus(params.security, params.poly_mod_deg.v)
            ELSE significant_bit_count(params.coeff_mod.v)
    IN  IF params.security \notin {128, 192} THEN failed("ValueError")
        ELSE IF ~is_pow_of_two(params.poly_mod_deg) THEN failed("ValueError")
        ELSE IF params.coeff_mod.ty # "int" THEN failed("ValueError")
        ELSE IF params.plain_mod.ty # "int" THEN failed("ValueError")
        ELSE IF params.plain_mod.v <= 0 /\ answer # "ok" THEN failed(answer)
        ELSE Scheme("ok", params,
                    Context(params.poly_mod_deg.v, qbits, params.plain_mod.v),
                    KeyGenerator(1, 1))

\* CipherScheme.__getstate__
CipherScheme_getstate(self) == self.context

\* CipherScheme.__setstate__: the context is the state, and a new
\* KeyGenerator is made of it, which makes a key pair of its own: after
\* the made keys that exist already, its pair is the next one
CipherScheme_setstate(self, state, made) ==
    [self EXCEPT !.context = state, !.keygen = KeyGenerator(made + 1, made + 1)]

\* CipherScheme.__eq__
CipherScheme_eq(self, other) == SEALContext_eq(self.context, other.context)

\* dbc_min() and dbc_max() of the engine
dbc_min == 1

dbc_max == 60

\* (pk, sk, ek, gk), each the number of its making; gk = 0 is None
Keys(pk, sk, ek, gk) == [pk |-> pk, sk |-> sk, ek |-> ek, gk |-> gk]

NoKeys == Keys(0, 0, 0, 0)

KeysResult(tag, keys, keygen) == [tag |-> tag, keys |-> keys, keygen |-> keygen]

Ended(type, msg) == [type |-> type, msg |-> msg]

NotValidForBatching == "encryption parameters are not valid for batching"

\* KeyGenerator.generate_galois_keys: with galois = "auto" it raises the
\* RuntimeError of batching exactly for parameters that do not allow
\* batching; any other galois is an exception it raises for another reason
generate_galois_keys(context, galois) ==
    IF galois = "auto"
    THEN IF IsPrime(context.t) /\ context.t % (2 * context.n) = 1
         THEN Ended("ok", "")
         ELSE Ended("RuntimeError", NotValidForBatching)
    ELSE Ended(galois, "other")

\* CipherScheme.generate_keys with except RuntimeError catching whatever
\* the message is
CipherScheme_generate_keys_CatchAll(self, dbc, eval_keys, accessor, galois) ==
    LET made(pk, n) ==
            LET gk == generate_galois_keys(self.context, galois)
            IN  IF gk.type = "ok"
                THEN KeysResult("ok", Keys(pk, pk, n + 1, n + 2), KeyGenerator(self.keygen.key, n + 2))
                ELSE IF gk.type = "RuntimeError"
                THEN KeysResult("ok", Keys(pk, pk, n + 1, 0), KeyGenerator(self.keygen.key, n + 1))
                ELSE KeysResult(gk.type, NoKeys, KeyGenerator(self.keygen.key, n + 1))
    IN  IF ~(dbc_min <= dbc /\ dbc <= dbc_max)
        THEN KeysResult("AssertionError", NoKeys, self.keygen)
        ELSE IF ~(eval_keys > 0)
        THEN KeysResult("AssertionError", NoKeys, self.keygen)
        ELSE IF accessor = "stored"
        THEN made(self.keygen.key, self.keygen.made)
        ELSE made(self.keygen.made + 1, self.keygen.made + 1)

\* CipherScheme.generate_keys.  pk and sk are read from the key generator
\* made in __init__: accessor says whether public_key() and secret_key()
\* hand out the pair the generator holds ("stored") or make a new one
\* ("fresh"); ek and gk are made in the call.
CipherScheme_generate_keys(self, dbc, eval_keys, accessor, galois) ==
    LET made(pk, n) ==
            LET gk == generate_galois_keys(self.context, galois)
            IN  IF gk.type = "ok"
                THEN KeysResult("ok", Keys(pk, pk, n + 1, n + 2), KeyGenerator(self.keygen.key, n + 2))
                ELSE IF gk.type = "RuntimeError" /\ gk.msg = NotValidForBatching
                THEN KeysResult("ok", Keys(pk, pk, n + 1, 0), KeyGenerator(self.keygen.key, n + 1))
                ELSE KeysResult(gk.type, NoKeys, KeyGenerator(self.keygen.key, n + 1))
    IN  IF ~(dbc_min <= dbc /\ dbc <= dbc_max)
        THEN KeysResult("AssertionError", NoKeys, self.keygen)
        ELSE IF ~(eval_keys > 0)
        THEN KeysResult("AssertionError", NoKeys, self.keygen)
        ELSE IF accessor = "stored"
        THEN made(self.keygen.key, self.keygen.made)
        ELSE made(self.keygen.made + 1, self.keygen.made + 1)

\* the arguments of generate_keys and the two answers of the engine
KeyArgs(dbc, eval_keys, accessor, galois) ==
    [dbc |-> dbc, eval_keys |-> eval_keys, accessor |-> accessor, galois |-> galois]

NoKeyArgs == KeyArgs(0, 0, "stored", "auto")

\* the last call on the facade: == and its answer, or generate_keys with
\* its arguments, the keys it returned and the keys the call before it
\* returned
Reply(op, tag, eq, args, keys, before) ==
    [op |-> op, tag |-> tag, eq |-> eq, args |-> args, keys |-> keys,
     before |-> before]

NoReply == Reply("none", "ok", FALSE, NoKeyArgs, NoKeys, NoKeys)

VARIABLES ctx, x, last, enc, call

\* two facades and the last call on them
VARIABLES cs, cs2, reply

\* a second encoder, and the last comparison of the two
VARIABLES enc2, ret

vars == <<cs, cs2, reply, enc2, ret, engine, ctx, x, last, enc, call>>

NoOperand == PlainOperand(PyNone)

NoDecode == DecodeResult("none", PyNone)

\* the statement: op, the object whose method ran (self), the other
\* operand, where x stood, the exponent, the outcome of "other is 0.0" and
\* the engine's answer to a zero plaintext, the variable assigned, the
\* outcome, the encoder object of self as the statement leaves it and, for
\* decrypt, the decoded value
Statement(op, self, other, side, power, is0f, engineZero, target, res, dec) ==
    [op |-> op, self |-> self, other |-> other, side |-> side, power |-> power,
     is0f |-> is0f, engineZero |-> engineZero, target |-> target,
     tag |-> res.tag, res |-> res.val, muls |-> res.muls,
     mulPlains |-> res.mulPlains, addPlains |-> res.addPlains,
     encoder |-> res.encoder, dec |-> dec]

\* the call: the method, its argument, the keyword arguments of a
\* constructor, its outcome, the plaintext encode returned and, after
\* decode, the value decoded from it
Call(op, plain, kw, tag, encoded, decoded) ==
    [op |-> op, plain |-> plain, kw |-> kw, tag |-> tag, encoded |-> encoded,
     decoded |-> decoded]

NoCall == Call("none", PyNone, DefaultKwargs, "ok", NoPlain, NoDecode)

\* the construction of the second encoder (what it was asked for, its
\* options, its context) and, after ==, the two encoders compared, whether
\* the first had encoded before, and the answer
Ret(op, plain, kw, context, self, other, fresh, eq) ==
    [op |-> op, plain |-> plain, kw |-> kw, context |-> context,
     self |-> self, other |-> other, fresh |-> fresh, eq |-> eq]

NoRet == Ret("none", PyNone, DefaultKwargs, Context(0, 0, 0), NoEnc, NoEnc, FALSE, FALSE)

Init ==
    /\ engine \in Engines
    /\ ctx \in Contexts
    /\ x = NoCt
    /\ last = Statement("none", NoCt, NoOperand, "left", PyNone, FALSE, "ok", "x",
                        OpResult("ok", NoCt, 0, 0, 0), NoDecode)
    /\ enc = NoEnc
    /\ call = NoCall
    /\ enc2 = NoEnc
    /\ ret = NoRet
    /\ cs = NoScheme
    /\ cs2 = NoScheme
    /\ reply = NoReply

\* the program runs until a statement raises or assigns y
Running == last.tag = "ok" /\ last.target = "x"

\* the result of a statement with op, with the history of x behind it
Derived(res, op) ==
    IF res.tag = "ok"
    THEN [res EXCEPT !.val.plain = x.plain, !.val.ops = Append(x.ops, op)]
    ELSE res

\* a statement combining x with itself assigns x while x is young enough
Target(other) ==
    IF other = CtOperand(x) /\ Len(x.ops) < MaxDepth THEN "x" ELSE "y"

\* x after a statement: the result where x is assigned; otherwise x, with
\* the encoder the call left where x is the object whose method ran
Assign(target, isSelf, res) ==
    IF target = "x" /\ res.tag = "ok" THEN res.val
    ELSE IF isSelf THEN [x EXCEPT !.encoder = res.encoder]
    ELSE x

\* the ciphertexts x can be combined with: itself and fresh ones
Others ==
    {CtOperand(x)}
        \cup {CtOperand(r.val) :
                 r \in {s \in {CipherScheme_encrypt(ctx, i[1], i[2]) : i \in OtherInputs} :
                           s.tag = "ok"}}

Operands == Others \cup {PlainOperand(p) : p \in PlainOperands}

\* x = cs.encrypt(pk, plain, **kw).  The program of the ciphertext is run
\* over one engine: encrypt makes a new encoder for every value, with
\* positive budgets and with the shape of the matrix it encodes, so none of
\* its calls reaches the two answers in which the engines differ.
Encrypt(plain, kw) ==
    LET assigned(res) ==
            /\ x' = Assign("x", FALSE, res)
            /\ last' = Statement("encrypt", NoCt, PlainOperand(plain), "left", PyNone,
                                 FALSE, "ok", "x", res, NoDecode)
    IN  /\ last.op = "none"
        /\ engine = StrictEngine
        /\ assigned(CipherScheme_encrypt(ctx, plain, kw))
        /\ UNCHANGED <<cs, cs2, reply, enc2, ret, engine, ctx, enc, call>>

\* the matrices of the ciphertexts made by hand
WrapInputs == {MatA, MatWide}

\* x = CipherText(cs.encrypt(pk, plain)._cipher, context,
\*                IntMatrixEncoder(context)):
\* a ciphertext made by the constructor, with an encoder that has not
\* encoded yet and so has no shape.  Its history begins with the
\* constructor: no statement assigns x after it.
Wrap(plain) ==
    LET assigned(ct) ==
            /\ x' = ct
            /\ last' = Statement("CipherText", NoCt, PlainOperand(plain), "left", PyNone,
                                 FALSE, "ok", "x", OpResult("ok", ct, 0, 0, 0), NoDecode)
        made(c, new) ==
            /\ c.tag = "ok"
            /\ new.tag = "ok"
            /\ assigned([CipherText_init(c.val.cipher, ctx, new.enc)
                            EXCEPT !.plain = plain, !.ops = <<"CipherText">>])
    IN  /\ last.op = "none"
        /\ engine = StrictEngine
        /\ made(CipherScheme_encrypt(ctx, plain, DefaultKwargs),
                IntMatrixEncoder_init(ctx, DefaultKwargs))
        /\ UNCHANGED <<cs, cs2, reply, enc2, ret, engine, ctx, enc, call>>

\* x + other (side "left") or other + x (side "right")
Add(other, side) ==
    LET self == IF other.isCt /\ side = "right" THEN other.ct ELSE x
        oth  == IF other.isCt /\ side = "right" THEN CtOperand(x) ELSE other
        assigned(out) ==
            /\ x' = Assign(Target(other), self = x, out)
            /\ last' = Statement("add", self, oth, side, PyNone, FALSE, "ok",
                                 Target(other), out, NoDecode)
    IN  /\ x # NoCt
        /\ Running
        /\ assigned(Derived(PyAdd(self, oth, IF other.isCt THEN "left" ELSE side), "add"))
        /\ UNCHANGED <<cs, cs2, reply, enc2, ret, engine, ctx, enc, call>>

\* x - other or other - x
Sub(other, side) ==
    LET self == IF other.isCt /\ side = "right" THEN other.ct ELSE x
        oth  == IF other.isCt /\ side = "right" THEN CtOperand(x) ELSE other
        assigned(out) ==
            /\ x' = Assign(Target(other), self = x, out)
            /\ last' = Statement("sub", self, oth, side, PyNone, FALSE, "ok",
                                 Target(other), out, NoDecode)
    IN  /\ x # NoCt
        /\ Running
        /\ assigned(Derived(PySub(self, oth, IF other.isCt THEN "left" ELSE side), "sub"))
        /\ UNCHANGED <<cs, cs2, reply, enc2, ret, engine, ctx, enc, call>>

\* x * other or other * x
Mul(other, side, is0f, engineZero) ==
    LET self == IF other.isCt /\ side = "right" THEN other.ct ELSE x
        oth  == IF other.isCt /\ side = "right" THEN CtOperand(x) ELSE other
        assigned(out) ==
            /\ x' = Assign(Target(other), self = x, out)
            /\ last' = Statement("mul", self, oth, side, PyNone, is0f, engineZero,
                                 Target(other), out, NoDecode)
    IN  /\ x # NoCt
        /\ Running
        /\ is0f => IsFloatZero(other)
        /\ engineZero # "ok" => ~other.isCt
        /\ assigned(Derived(PyMul(self, oth, IF other.isCt THEN "left" ELSE side,
                                  is0f, engineZero), "mul"))
        /\ UNCHANGED <<cs, cs2, reply, enc2, ret, engine, ctx, enc, call>>

\* -x
Neg ==
    LET assigned(out) ==
            /\ x' = Assign(Target(CtOperand(x)), TRUE, out)
            /\ last' = Statement("neg", x, NoOperand, "left", PyNone, FALSE, "ok",
                                 Target(CtOperand(x)), out, NoDecode)
    IN  /\ x # NoCt
        /\ Running
        /\ assigned(Derived(CipherText_neg(x), "neg"))
        /\ UNCHANGED <<cs, cs2, reply, enc2, ret, engine, ctx, enc, call>>

\* y = x ** power
PowOp(power) ==
    LET assigned(out) ==
            /\ x' = Assign("y", TRUE, out)
            /\ last' = Statement("pow", x, NoOperand, "left", power, FALSE, "ok", "y",
                                 out, NoDecode)
    IN  /\ x # NoCt
        /\ Running
        /\ assigned(Derived(PyPow(x, power), "pow"))
        /\ UNCHANGED <<cs, cs2, reply, enc2, ret, engine, ctx, enc, call>>

\* x.decrypt(sk)
Decrypt ==
    /\ x # NoCt
    /\ Running
    /\ last' = Statement("decrypt", x, NoOperand, "left", PyNone, FALSE, "ok", "y",
                         Left(OpResult("ok", NoCt, 0, 0, 0), x.encoder),
                         CipherText_decrypt(x))
    /\ UNCHANGED <<cs, cs2, reply, enc2, ret, engine, ctx, x, enc, call>>

\* the rotations asked for: (r, col) with the default axis, and an int on
\* one axis
RollArgs ==
    {<<PyTuple(r, col), 0>> : r \in (0 - 2)..2, col \in (0 - 1)..1}
        \cup {<<PyInt(k), 0>> : k \in (0 - 2)..2}
        \cup {<<PyInt(k), 1>> : k \in (0 - 1)..1}
        \cup {<<PyInt(1), 2>>}

\* y = x.roll(gk, shift, axis), x the ciphertext of a matrix; the statement
\* keeps the axis as its other operand and the shift as its exponent
Roll(shift, axis) ==
    /\ x # NoCt
    /\ Running
    /\ x.encoder.kind = "mat"
    /\ last' = Statement("roll", x, PlainOperand(PyInt(axis)), "left", shift, FALSE, "ok",
                         "y", Derived(CipherText_roll(x, shift, axis), "roll"), NoDecode)
    /\ UNCHANGED <<cs, cs2, reply, enc2, ret, engine, ctx, x, enc, call>>

\* y = x.relinearize(ek)
Relinearize ==
    /\ x # NoCt
    /\ Running
    /\ last' = Statement("relinearize", x, NoOperand, "left", PyNone, FALSE, "ok", "y",
                         Derived(CipherText_relinearize(x), "relinearize"), NoDecode)
    /\ UNCHANGED <<cs, cs2, reply, enc2, ret, engine, ctx, x, enc, call>>

\* y = pickle.loads(pickle.dumps(x))
Pickle(dump, load) ==
    /\ x # NoCt
    /\ Running
    /\ last' = Statement("pickle", x, NoOperand, "left", PyNone, FALSE, "ok", "y",
                         Derived(pickle_loads_dumps(x, dump, load), "pickle"), NoDecode)
    /\ UNCHANGED <<cs, cs2, reply, enc2, ret, engine, ctx, x, enc, call>>

\* (the guard of the operators is repeated in front of the quantifiers so
\* that the operands are enumerated only while the program runs)
Next ==
    \/ \E i \in EncryptInputs : Encrypt(i[1], i[2])
    \/ Running /\ x # NoCt /\ \E o \in Operands, side \in {"left", "right"} : Add(o, side)
    \/ Running /\ x # NoCt /\ \E o \in Operands, side \in {"left", "right"} : Sub(o, side)
    \/ Running /\ x # NoCt
          /\ \E o \in Operands, side \in {"left", "right"}, is0f \in BOOLEAN,
                engineZero \in {"ok", "ValueError"} : Mul(o, side, is0f, engineZero)
    \/ Neg
    \/ \E power \in Powers : PowOp(power)
    \/ Decrypt
    \/ \E a \in RollArgs : Roll(a[1], a[2])
    \/ Relinearize
    \/ Running /\ x # NoCt
          /\ \E dump, load \in Orders(Attributes(x.encoder.kind)) : Pickle(dump, load)
    \/ \E plain \in WrapInputs : Wrap(plain)

Spec == Init /\ [][Next]_vars

(***************************************************************************)
(* The program on one encoder.                                             *)
(***************************************************************************)
\* int, float and np.ndarray handed to Encoder(...) as the type wanted
TypeRequest(name) == [PyNone EXCEPT !.ty = name]

TypeRequests == {TypeRequest("type:int"), TypeRequest("type:float"),
                 TypeRequest("type:ndarray"), PyStr}

\* a shape given in part: rows alone, cols alone
KwPartialShape ==
    {[DefaultKwargs EXCEPT !.rows = 2], [DefaultKwargs EXCEPT !.cols = 4]}

\* the budgets of the fixed-point encoder: floats from below 0 to above 1,
\* ints from below 0 to above the degree
BudgetArgs ==
    {PyFloat(k, FloatDen) : k \in (0 - 1)..(FloatDen + 1)}
        \cup {PyInt(k) : k \in (0 - 1)..MaxBudget}

EncoderKwargs ==
    {[DefaultKwargs EXCEPT !.base = b, !.unsigned = u] :
         b \in 2..MaxBase, u \in BOOLEAN}
        \cup {KwBudgets, KwShape, KwShapeWide} \cup KwPartialShape
        \cup {[DefaultKwargs EXCEPT !.integral = i, !.fractional = f] :
                  i \in BudgetArgs, f \in BudgetArgs}

\* matrices without elements, and an array of three dimensions
MatDegenerate ==
    {PyArray("int", <<0, 4>>, <<>>), PyArray("int", <<2, 0>>, <<>>),
     PyArray("int", <<0, 0>>, <<>>), PyArray("int", <<1, 2, 2>>, <<1, 2, 3, 0>>)}

\* the values handed to encode
EncoderPlains ==
    {PyInt(k) : k \in (0 - MaxVal)..MaxVal} \cup FloatPlains \cup MatPlains
        \cup MatDegenerate \cup {PyStr}

\* the options given with a value: all but the grid of budgets
ValueKwargs ==
    {[DefaultKwargs EXCEPT !.base = b, !.unsigned = u] :
         b \in 2..MaxBase, u \in BOOLEAN}
        \cup {KwBudgets, KwShape} \cup KwPartialShape

\* the values handed to Encoder(...): 3, -2, 1.5, two matrices, a str
ValuePlains ==
    {PyInt(3), PyInt(0 - 2), PyFloat(6, FloatDen), MatA, MatFloat, PyStr}

\* what Encoder(...) is called with: a type or a value, and the options
NewRequests ==
    (TypeRequests \X EncoderKwargs) \cup (ValuePlains \X ValueKwargs)

\* encoded, enc = Encoder(request, context, **kw)
NewEncoder(request, kw) ==
    LET assigned(r) ==
            /\ enc' = r.enc
            /\ call' = Call("new", request, kw, r.tag, r.encoded, NoDecode)
    IN  /\ enc = NoEnc
        /\ call.op = "none"
        /\ assigned(Encoder_new(request, ctx, kw))
        /\ UNCHANGED <<cs, cs2, reply, enc2, ret, engine, ctx, x, last>>

\* encoded = enc.encode(plain)
Encode(plain) ==
    LET assigned(r) ==
            /\ enc' = r.enc
            /\ call' = Call("encode", plain, DefaultKwargs, r.tag, r.plain, NoDecode)
    IN  /\ enc # NoEnc
        \* a fixed-point encoder that the engine built with an empty budget
        \* is not followed into encode
        /\ enc.kind = "float" => (enc.integral > 0 /\ enc.fractional > 0)
        /\ assigned(Encoder_encode(enc, plain))
        /\ UNCHANGED <<cs, cs2, reply, enc2, ret, engine, ctx, x, last>>

\* a Python bool
PyBool(b) == [PyNone EXCEPT !.ty = "bool", !.v = IF b THEN 1 ELSE 0]

\* enc.can_encode(plain); the call keeps the answer where decode keeps the
\* value decoded
CanEncode(plain) ==
    LET assigned(r) ==
            /\ enc' = r.enc
            /\ call' = Call("can_encode", plain, DefaultKwargs, r.tag, NoPlain,
                            DecodeResult("can_encode", PyBool(r.can)))
    IN  /\ enc # NoEnc
        /\ enc.kind = "float" => (enc.integral > 0 /\ enc.fractional > 0)
        /\ assigned(Encoder_can_encode(enc, plain))
        /\ UNCHANGED <<cs, cs2, reply, enc2, ret, engine, ctx, x, last>>

\* enc.decode(encoded), on the plaintext the last encode returned
Decode ==
    LET assigned(d) ==
            call' = [call EXCEPT !.op = "decode", !.tag = d.tag, !.decoded = d,
                                 !.encoded = Encoder_decode_encoded(enc, call.encoded)]
    IN  /\ call.op = "encode"
        /\ call.tag = "ok"
        /\ assigned(Encoder_decode(enc, call.encoded))
        /\ UNCHANGED <<cs, cs2, reply, enc2, ret, engine, ctx, x, last, enc>>

NextEncoder ==
    \/ \E rk \in NewRequests : NewEncoder(rk[1], rk[2])
    \/ \E plain \in EncoderPlains : Encode(plain)
    \/ \E plain \in EncoderPlains : CanEncode(plain)
    \/ Decode

SpecEncoder == Init /\ [][NextEncoder]_vars

(***************************************************************************)
(* Properties.                                                             *)
(***************************************************************************)
\* the last statement was a binary operator over two ciphertexts
CtStatement(op) == last.op = op /\ last.other.isCt

\* the two encoders differ in their class or in one of their attributes
EncodersDiffer == last.self.encoder # last.other.ct.encoder

\* C1: add, subtract and multiply of two ciphertexts whose encoders are not
\* equal raise TypeError and return no ciphertext
C1_EncoderMismatchRaises ==
    \A op \in {"add", "sub", "mul"} :
        (CtStatement(op) /\ EncodersDiffer)
            => (last.tag = "TypeError" /\ last.res = NoCt)

\* two integer encoders that differ in the base only met in a subtraction
C1_Witness ==
    /\ CtStatement("sub")
    /\ last.self.encoder.kind = "int"
    /\ last.other.ct.encoder.kind = "int"
    /\ last.self.encoder.base # last.other.ct.encoder.base
    /\ last.self.encoder.unsigned = last.other.ct.encoder.unsigned
    /\ last.tag = "TypeError"

\* the last statement raised x to an exponent
PowStatement == last.op = "pow"

\* C4: power(c, 1) returns c itself and calls no multiply primitive, so the
\* size of the result is the size of c
C4_PowerOneIsIdentity ==
    (PowStatement /\ last.power = PyInt(1))
        => /\ last.tag = "ok"
           /\ last.res.cipher = last.self.cipher
           /\ last.res.encoder = last.self.encoder
           /\ last.res.context = last.self.context
           /\ last.muls = 0
           /\ last.mulPlains = 0
           /\ CipherText_size(last.res) = CipherText_size(last.self)

\* a fresh ciphertext, of size 2, raised to the exponent 1
C4_Witness ==
    /\ PowStatement
    /\ last.power = PyInt(1)
    /\ last.self.ops = <<>>
    /\ last.tag = "ok"
    /\ CipherText_size(last.res) = 2

\* C5 as stated: an exponent that is zero, negative or not an int is
\* refused with TypeError: no ciphertext is returned, in an array or
\* otherwise, and nothing is multiplied
C5_BadExponentRaises ==
    (PowStatement /\ (last.power.ty # "int" \/ last.power.v <= 0))
        => /\ last.tag = "TypeError"
           /\ last.res = NoCt
           /\ last.muls = 0
           /\ last.mulPlains = 0

(***************************************************************************)
(* What a ciphertext decodes to, and the relations between decoded values  *)
(* that the properties below speak about.                                  *)
(***************************************************************************)
Dec(ct) == CipherText_decrypt(ct)

\* the ciphertext the encoder of ct makes of the value plain
Fresh(ct, plain) ==
    CipherText_init(Encryptor_encrypt(Encoder_encode(ct.encoder, plain).plain,
                                      ct.context).cipher,
                    ct.context, ct.encoder)

\* d is the value a: the same number, or the same matrix
SameValue(d, a) ==
    /\ d.ty = a.ty
    /\ d.v * a.den = a.v * d.den
    /\ d.shape = a.shape
    /\ d.data = a.data

\* d is the matrix a with every element reduced modulo t
SameModulo(d, a, t) ==
    /\ d.ty = a.ty
    /\ d.shape = a.shape
    /\ Len(d.data) = Len(a.data)
    /\ \A i \in 1..Len(a.data) : d.data[i] = a.data[i] % t

\* the number d is num/den modulo t, at the scale of the digits of d
CongruentTo(d, num, den, t) == (d.v * den - num * d.den) % (t * den) = 0

\* d is twice a modulo t: as a number, or element by element
Twice(d, a, t) ==
    /\ d.ty = a.ty
    /\ d.shape = a.shape
    /\ Len(d.data) = Len(a.data)
    /\ CongruentTo(d, 2 * a.v, a.den, t)
    /\ \A i \in 1..Len(a.data) : d.data[i] = (2 * a.data[i]) % t

\* x = x + x on a fresh x, and x = -x on an x that is the negation of a fresh x
AddSelf ==
    /\ last.op = "add"
    /\ last.other.isCt
    /\ last.other.ct = last.self
    /\ last.self.ops = <<>>

NegNeg == last.op = "neg" /\ last.self.ops = <<"neg">>

\* C2 as stated: c + c decodes to 2a modulo the plaintext modulus and -(-c)
\* decodes to a, for every value a that an encoder accepts
C2_DoubleOfPlain ==
    /\ AddSelf => /\ last.tag = "ok"
                  /\ Dec(last.res).tag = "ok"
                  /\ Twice(Dec(last.res).val, last.self.plain, ctx.t)
    /\ NegNeg => /\ last.tag = "ok"
                 /\ Dec(last.res).tag = "ok"
                 /\ SameValue(Dec(last.res).val, last.self.plain)

\* C2: c + c decodes to twice the value that c itself decodes to, modulo the
\* plaintext modulus, and -(-c) decodes to what c decodes to; c decodes to a
\* when a is an int, to a modulo t when a is a matrix, and to a truncated
\* to the fractional digits of the encoder when a is a float
C2_DoubleOfEncoded ==
    /\ AddSelf => /\ last.tag = "ok"
                  /\ Dec(last.res).tag = "ok"
                  /\ Dec(last.self).tag = "ok"
                  /\ Twice(Dec(last.res).val, Dec(last.self).val, ctx.t)
                  /\ last.self.plain.ty = "int"
                        => Dec(last.self).val = last.self.plain
                  /\ last.self.plain.ty = "ndarray"
                        => SameModulo(Dec(last.self).val, last.self.plain, ctx.t)
    /\ NegNeg => /\ last.tag = "ok"
                 /\ Dec(last.res) = Dec(Fresh(last.self, last.self.plain))
                 /\ last.self.plain.ty = "int"
                       => Dec(last.res).val = last.self.plain
                 /\ last.self.plain.ty = "ndarray"
                       => SameModulo(Dec(last.res).val, last.self.plain, ctx.t)

\* the encryption of 2 added to itself decodes to 4
C2_Witness ==
    /\ AddSelf
    /\ last.self.plain = PyInt(2)
    /\ last.tag = "ok"
    /\ Dec(last.res).val = PyInt(4)

\* the polynomial p multiplied k times with itself in the plaintext ring
RECURSIVE RingPower(_, _, _)
RingPower(p, k, t) == IF k <= 1 THEN p ELSE PolyMul(p, RingPower(p, k - 1, t), t)

\* the digits of a plaintext as integers: centered, without leading zeros
RECURSIVE Trim(_)
Trim(c) == IF Len(c) > 1 /\ c[Len(c)] = 0 THEN Trim(SubSeq(c, 1, Len(c) - 1)) ELSE c

Digits(p, t) == Trim([i \in 1..Len(p.c) |-> Centered(p.c[i], t)])

\* product and power of integer polynomials, nothing reduced
IntPolyMul(c, d) ==
    [k \in 1..(Len(c) + Len(d) - 1) |->
        SumTo([i \in 1..Len(c) |->
                  IF k - i + 1 >= 1 /\ k - i + 1 <= Len(d) THEN c[i] * d[k - i + 1] ELSE 0],
              Len(c))]

RECURSIVE IntPolyPower(_, _)
IntPolyPower(c, k) == IF k <= 1 THEN c ELSE IntPolyMul(c, IntPolyPower(c, k - 1))

\* the k-th power of the digits fits the ring: its degree is below n and
\* its coefficients are their own centered representatives modulo t
PowerFits(p, k, n, t) ==
    LET c == IntPolyPower(Digits(p, t), k)
    IN  /\ Len(c) <= n
        /\ \A i \in 1..Len(c) : Centered(c[i] % t, t) = c[i]

\* a fresh ciphertext raised to an int exponent of at least 1
PowOfFresh ==
    /\ PowStatement
    /\ last.self.ops = <<>>
    /\ last.power.ty = "int"
    /\ last.power.v >= 1

\* C3 as stated: for every exponent p >= 1 the power of the encryption of a
\* decodes to a^p
C3_PowerOfPlain ==
    PowOfFresh
        => LET a == last.self.plain
               d == Dec(last.res)
               p == last.power.v
           IN  /\ last.tag = "ok"
               /\ d.tag = "ok"
               /\ d.val.ty = a.ty
               /\ d.val.v * Pow(a.den, p) = Pow(a.v, p) * d.val.den
               /\ Len(d.val.data) = Len(a.data)
               /\ \A i \in 1..Len(a.data) : d.val.data[i] = Pow(a.data[i], p)

\* C3: for every exponent p >= 1 the power of the encryption of a holds the
\* p-th power, in the plaintext ring, of the polynomial that encodes a; it
\* decodes to a^p for an int a whose digits raised to p keep their degree
\* below n and their coefficients inside the centered range of t, and to
\* a^p modulo t, element by element, for a matrix a
C3_PowerInRing ==
    PowOfFresh
        => LET a == last.self.plain
               d == Dec(last.res)
               p == last.power.v
               poly == last.self.cipher.poly
           IN  /\ last.tag = "ok"
               /\ last.res.cipher.poly = RingPower(poly, p, ctx.t)
               /\ (a.ty = "int" /\ PowerFits(poly, p, ctx.n, ctx.t))
                     => d = DecodeResult("ok", PyInt(Pow(a.v, p)))
               /\ a.ty = "ndarray"
                     => /\ d.tag = "ok"
                        /\ d.val.shape = a.shape
                        /\ Len(d.val.data) = Len(a.data)
                        /\ \A i \in 1..Len(a.data) :
                               d.val.data[i] = Pow(a.data[i], p) % ctx.t

\* the encryption of 3 raised to 3, through c * square(c), decodes to 27
C3_Witness ==
    /\ PowOfFresh
    /\ last.power = PyInt(3)
    /\ last.self.plain = PyInt(3)
    /\ last.muls = 2
    /\ PowerFits(last.self.cipher.poly, 3, ctx.n, ctx.t)
    /\ Dec(last.res).val = PyInt(27)

\* x - other, or other - x, between ciphertexts of equal encoders
SubOfEqualEncoders ==
    /\ CtStatement("sub")
    /\ Encoder_eq(last.self.encoder, last.other.ct.encoder)

\* C7 as stated: subtract(a, b) is add(b, negate(a)) and, where the three
\* of them decode, decodes to decode(b) - decode(a)
C7_OtherMinusSelf ==
    SubOfEqualEncoders
        => LET a == Dec(last.self)
               b == Dec(last.other.ct)
               d == Dec(last.res)
           IN  /\ last.tag = "ok"
               /\ last.res.cipher =
                     CipherText_add(last.other.ct,
                                    CtOperand(CipherText_neg(last.self).val)).val.cipher
               /\ (a.tag = "ok" /\ b.tag = "ok" /\ d.tag = "ok")
                     => /\ d.val.ty = a.val.ty
                        /\ d.val.v * a.val.den * b.val.den
                              = (b.val.v * a.val.den - a.val.v * b.val.den) * d.val.den
                        /\ Len(d.val.data) = Len(a.val.data)
                        /\ \A i \in 1..Len(a.val.data) :
                               d.val.data[i] = b.val.data[i] - a.val.data[i]

\* C7: subtract(a, b) is add(b, negate(a)): it holds the polynomial of b
\* minus the polynomial of a and, whenever the three of them decode, it
\* decodes to decode(b) - decode(a) modulo the plaintext modulus
C7_OtherMinusSelfModulo ==
    SubOfEqualEncoders
        => LET a == Dec(last.self)
               b == Dec(last.other.ct)
               d == Dec(last.res)
           IN  /\ last.tag = "ok"
               /\ last.res.cipher =
                     CipherText_add(last.other.ct,
                                    CtOperand(CipherText_neg(last.self).val)).val.cipher
               /\ last.res.cipher.poly =
                     PolyAdd(last.other.ct.cipher.poly,
                             PolyNeg(last.self.cipher.poly, ctx.t), ctx.t)
               /\ (a.tag = "ok" /\ b.tag = "ok" /\ d.tag = "ok")
                     => /\ d.val.ty = a.val.ty
                        /\ CongruentTo(d.val,
                                       b.val.v * a.val.den - a.val.v * b.val.den,
                                       a.val.den * b.val.den, ctx.t)
                        /\ Len(d.val.data) = Len(a.val.data)
                        /\ \A i \in 1..Len(a.val.data) :
                               d.val.data[i]
                                   = (b.val.data[i] - a.val.data[i]) % ctx.t

\* the encryption of 3 minus the encryption of 2 decodes to -1
C7_Witness ==
    /\ SubOfEqualEncoders
    /\ last.self.plain = PyInt(3)
    /\ last.self.ops = <<>>
    /\ last.other.ct.plain = PyInt(2)
    /\ last.tag = "ok"
    /\ Dec(last.res).val = PyInt(0 - 1)

\* an int handed to the encoder for signed ints
SignedIntCall(op) ==
    /\ call.op = op
    /\ enc.kind = "int"
    /\ ~enc.unsigned
    /\ call.plain.ty = "int"

\* the digit d of a value of the sign sgn is a balanced digit of the base b
IsBalancedDigit(d, b, sgn) ==
    IF b = 2 THEN d * sgn \in {0, 1}
    ELSE IF b % 2 = 1 THEN d >= 0 - ((b - 1) \div 2) /\ d <= (b - 1) \div 2
    ELSE d >= 0 - (b \div 2) /\ d <= (b - 1) \div 2

\* C10: for every base from 2 up and every signed int v, encode succeeds
\* and writes balanced digits of that base, stored modulo the plaintext
\* modulus, whose value at x = base is v, and decode of it returns v
C10_IntegerRoundTrip ==
    /\ SignedIntCall("encode")
          => LET c == call.encoded.c
                 v == call.plain.v
             IN  /\ call.tag = "ok"
                 /\ \A i \in 1..Len(c) :
                        /\ c[i] >= 0 /\ c[i] < ctx.t
                        /\ IsBalancedDigit(Centered(c[i], ctx.t), enc.base,
                                           IF v < 0 THEN 0 - 1 ELSE 1)
                 /\ EvalAt(c, enc.base, ctx.t) = v
    /\ SignedIntCall("decode")
          => call.decoded = DecodeResult("ok", call.plain)

\* -7 = -1 + 3 - 9 went through the base 3 encoder and came back
C10_Witness ==
    /\ SignedIntCall("decode")
    /\ enc.base = 3
    /\ call.plain = PyInt(0 - 7)
    /\ call.encoded.c = <<ctx.t - 1, 1, ctx.t - 1>>
    /\ call.decoded.val = PyInt(0 - 7)

(***************************************************************************)
(* Multiplication by the zero literals, subtraction and addition of plain  *)
(* operands.                                                               *)
(***************************************************************************)
\* x * other or other * x with other the int 0 for an int encoder, the
\* float 0.0 for a float encoder
MulByZeroLiteral ==
    /\ last.op = "mul"
    /\ ~last.other.isCt
    /\ \/ last.self.encoder.kind = "int" /\ last.other.plain = PyInt(0)
       \/ last.self.encoder.kind = "float" /\ last.other.plain = PyFloat(0, FloatDen)

\* C6 as stated: multiplying by the literal 0 (int encoder) or 0.0 (float
\* encoder), from either side, always raises and returns no ciphertext
C6_ZeroLiteralRejected ==
    MulByZeroLiteral => (last.tag \notin {"ok", "ndarray"} /\ last.res = NoCt)

\* x - other with a plain operand other
SubOfPlain == last.op = "sub" /\ ~last.other.isCt /\ last.side = "left"

\* C8 as stated: x - other succeeds for exactly the operands for which
\* x + other succeeds, and raises TypeError for the others
C8_SubDefinedLikeAdd ==
    (last.op = "sub" /\ (last.other.isCt \/ last.side = "left"))
        => /\ last.tag = PyAdd(last.self, last.other, "left").tag
           /\ last.tag \in {"ok", "ndarray", "TypeError"}

\* C8: a - other, a a ciphertext, returns a ciphertext exactly when other
\* is a ciphertext whose encoder equals the encoder of a.  For every other
\* operand, the plain values that a + other accepts included, it returns
\* no ciphertext: it raises TypeError, except for an array without
\* elements, where numpy subtracts nothing and returns an array without
\* elements
C8_SubOnlyOfCiphertexts ==
    (last.op = "sub" /\ (last.other.isCt \/ last.side = "left"))
        => IF last.other.isCt /\ Encoder_eq(last.self.encoder, last.other.ct.encoder)
           THEN last.tag = "ok" /\ last.res # NoCt
           ELSE IF IsArray(last.other) /\ Len(last.other.plain.data) = 0
           THEN last.tag = "ndarray" /\ last.res = NoCt
           ELSE last.tag = "TypeError" /\ last.res = NoCt

\* x - 2 raised TypeError for an x that x + 2 accepts
C8_Witness ==
    /\ SubOfPlain
    /\ last.other.plain = PyInt(2)
    /\ last.self.encoder.kind = "int"
    /\ PyAdd(last.self, last.other, "left").tag = "ok"
    /\ last.tag = "TypeError"

\* x + other or other + x with a plain operand other
AddOfPlain == last.op = "add" /\ ~last.other.isCt

\* C9 as stated: with a plain operand, + succeeds iff the encoder of x can
\* encode the operand, through one add_plain, on whichever side the operand
\* stands, and raises TypeError otherwise
C9_PlainAddIffEncodable ==
    AddOfPlain
        => IF Encoder_can_encode(last.self.encoder, last.other.plain).can
           THEN last.tag = "ok" /\ last.res # NoCt /\ last.addPlains = 1
           ELSE last.tag = "TypeError" /\ last.res = NoCt

(***************************************************************************)
(* The program on two encoders: both are constructed, the first may        *)
(* encode a matrix, and they are compared.                                 *)
(***************************************************************************)
\* a context that differs from those of Contexts in the coefficient modulus
ContextWide == Context(4, 28, 17)

CompareKwargs ==
    ValueKwargs \cup {[DefaultKwargs EXCEPT !.integral = PyInt(2)]}

CompareRequests ==
    {TypeRequest("type:int"), TypeRequest("type:float"), TypeRequest("type:ndarray")}

\* _, enc2 = Encoder(request, context, **kw)
NewOther(request, kw, context) ==
    LET assigned(r) ==
            /\ r.tag = "ok"
            /\ enc2' = r.enc
            /\ ret' = Ret("new", request, kw, context, NoEnc, NoEnc, FALSE, FALSE)
    IN  /\ enc # NoEnc
        /\ enc2 = NoEnc
        /\ assigned(Encoder_new(request, context, kw))
        /\ UNCHANGED <<cs, cs2, reply, engine, ctx, x, last, enc, call>>

\* enc == enc2
Eq ==
    /\ enc2 # NoEnc
    /\ ret.op = "new"
    /\ ret' = [ret EXCEPT !.op = "eq", !.self = enc, !.other = enc2,
                          !.fresh = (call.op = "new"),
                          !.eq = Encoder_eq(enc, enc2)]
    /\ UNCHANGED <<cs, cs2, reply, engine, ctx, x, last, enc, call, enc2>>

NextEq ==
    \/ \E request \in CompareRequests, kw \in CompareKwargs : NewEncoder(request, kw)
    \/ \E request \in CompareRequests, kw \in CompareKwargs,
          context \in Contexts \cup {ContextWide} : NewOther(request, kw, context)
    \/ \E plain \in {MatA, MatWide} : Encode(plain)
    \/ Eq

SpecEq == Init /\ [][NextEq]_vars

(***************************************************************************)
(* The program on two facades: both are constructed and compared.          *)
(***************************************************************************)
\* degrees, with 0, a negative one, ones that are no power of two, a float
DegreeArgs == {PyInt(k) : k \in {0 - 4, 0, 2, 3, 4, 6, 8}} \cup {PyFloat(4, 1)}

\* plaintext moduli, with 0, a negative one and a float
PlainModArgs == {PyInt(k) : k \in {0 - 1, 0, 5, 17}} \cup {PyFloat(5, 2)}

\* coefficient moduli: 0 for the recommended one, and two of three bits
CoeffModArgs == {PyInt(k) : k \in {0, 5, 7}}

SecurityArgs == {128, 192, 256}

SchemeParams ==
    {Params(d, t, q, sec) : d \in DegreeArgs, t \in PlainModArgs,
                            q \in CoeffModArgs, sec \in SecurityArgs}

\* what the engine does with a plaintext modulus that is not positive
EngineAnswers == {"ok", "ValueError", "TypeError"}

\* cs = CipherScheme(**params).  The facade meets neither compose nor the
\* budgets of an encoder nor the context of the encoders: one engine and
\* one ctx stand for all.
NewScheme(params, answer) ==
    /\ engine = StrictEngine
    /\ ctx.t = 17
    /\ cs = NoScheme
    /\ cs' = CipherScheme_init(params, answer)
    /\ UNCHANGED <<cs2, reply, enc2, ret, engine, ctx, x, last, enc, call>>

\* cs2 = CipherScheme(**params)
NewOtherScheme(params) ==
    /\ cs.tag = "ok"
    \* a facade the engine made with a plaintext modulus that is not positive
    \* is not followed further
    /\ cs.context.t > 0
    /\ cs2 = NoScheme
    /\ reply.op = "none"
    /\ CipherScheme_init(params, "ok").tag = "ok"
    /\ cs2' = CipherScheme_init(params, "ok")
    /\ UNCHANGED <<cs, reply, enc2, ret, engine, ctx, x, last, enc, call>>

\* cs == cs2
SchemeEq ==
    /\ cs2.tag = "ok"
    /\ reply.op = "none"
    /\ reply' = Reply("eq", "ok", CipherScheme_eq(cs, cs2), NoKeyArgs, NoKeys, NoKeys)
    /\ UNCHANGED <<cs, cs2, enc2, ret, engine, ctx, x, last, enc, call>>

\* decomposition bit counts around dbc_min and dbc_max, numbers of keys
DbcArgs == {dbc_min - 1, 16, dbc_max, dbc_max + 1}

EvalKeysArgs == {0, 1}

\* the ways generate_galois_keys can end
GaloisAnswers == {"auto", "RuntimeError", "ValueError"}

\* reply = cs.generate_keys(dbc, eval_keys)
GenerateKeys(dbc, eval_keys, accessor, galois) ==
    LET assigned(r) ==
            /\ cs' = [cs EXCEPT !.keygen = r.keygen]
            /\ reply' = Reply("generate_keys", r.tag, FALSE,
                              KeyArgs(dbc, eval_keys, accessor, galois), r.keys,
                              IF reply.tag = "ok" THEN reply.keys ELSE NoKeys)
    IN  /\ cs.tag = "ok"
        /\ cs.context.t > 0
        /\ cs2 = NoScheme
        /\ reply.op \in {"none", "generate_keys"}
        /\ cs.keygen.made + 3 <= MaxKeys
        /\ assigned(CipherScheme_generate_keys(cs, dbc, eval_keys, accessor, galois))
        /\ UNCHANGED <<cs2, enc2, ret, engine, ctx, x, last, enc, call>>

\* cs = pickle.loads(pickle.dumps(cs)), or cs.__setstate__(cs.__getstate__())
PickleScheme ==
    /\ cs.tag = "ok"
    /\ cs.context.t > 0
    /\ cs2 = NoScheme
    /\ reply.op \in {"none", "generate_keys"}
    /\ cs.keygen.made + 1 <= MaxKeys
    /\ cs' = CipherScheme_setstate(cs, CipherScheme_getstate(cs), cs.keygen.made)
    /\ UNCHANGED <<cs2, reply, enc2, ret, engine, ctx, x, last, enc, call>>

NextScheme ==
    \/ \E params \in SchemeParams, answer \in EngineAnswers : NewScheme(params, answer)
    \/ \E params \in SchemeParams : NewOtherScheme(params)
    \/ SchemeEq
    \/ \E dbc \in DbcArgs, eval_keys \in EvalKeysArgs, accessor \in {"stored", "fresh"},
          galois \in GaloisAnswers : GenerateKeys(dbc, eval_keys, accessor, galois)
    \/ PickleScheme

SpecScheme == Init /\ [][NextScheme]_vars

(***************************************************************************)
(* Properties of the batched encoder.                                      *)
(***************************************************************************)
\* the shapes of the matrices handed to encode
Shapes == {p.shape : p \in {q \in EncoderPlains : q.ty = "ndarray"}}

\* the last call was an encode of a matrix of the shape s that returned a
\* plaintext
EncodedShape(s) ==
    /\ enc.kind = "mat"
    /\ call.op = "encode"
    /\ call.tag = "ok"
    /\ call.plain.shape = s

\* the encoder holds the shape s, and the last call, if it was an encode of
\* a matrix of another shape, raised TypeError and returned no plaintext
LockedTo(s) ==
    /\ <<enc.rows, enc.cols>> = s
    /\ (call.op = "encode" /\ call.plain.ty = "ndarray" /\ call.plain.shape # s)
           => (call.tag = "TypeError" /\ call.encoded = NoPlain)

\* C11: once an encode of an r x c matrix has succeeded on a batched encoder
\* (constructed without a shape: no other batched encoder is ever
\* constructed or ever encodes), the encoder holds (r, c) from then on,
\* whatever is encoded or decoded later, and every later encode of a
\* matrix of another shape raises TypeError
C11_ShapeLocked ==
    \A s \in Shapes : [](EncodedShape(s) => []LockedTo(s))

\* a 1 x 4 matrix refused by an encoder that holds the shape (2, 2), which
\* only a successful encode of a 2 x 2 matrix gives it
C11_Witness ==
    /\ enc.kind = "mat"
    /\ <<enc.rows, enc.cols>> = <<2, 2>>
    /\ call.op = "encode"
    /\ call.plain = MatWide
    /\ call.tag = "TypeError"

\* the last call was an encode on a batched encoder
BatchedEncode == enc.kind = "mat" /\ call.op = "encode"

\* a matrix of two dimensions and of ints that fills the ring
FullMatrix(plain, n) ==
    /\ plain.ty = "ndarray"
    /\ plain.dtype = "int"
    /\ Len(plain.shape) = 2
    /\ plain.shape[1] * plain.shape[2] = n

\* C12 as stated: whatever the constructor was given and whatever was
\* encoded before, encode on a batched encoder returns a plaintext only for
\* a matrix of two dimensions, of ints, with rows * cols = n, and raises for
\* every other argument
C12_EncodesOnlyFullMatrices ==
    BatchedEncode
        => IF FullMatrix(call.plain, ctx.n)
           THEN call.tag \in {"ok", "TypeError"}
           ELSE call.tag \in {"TypeError", "ValueError"} /\ call.encoded = NoPlain

(***************************************************************************)
(* Properties of the constructors.                                         *)
(***************************************************************************)
\* the last call constructed the encoder for the request
Constructed(request) == call.op = "new" /\ call.plain.ty = request

\* a budget as a count of coefficients: int(f * n) for a float f, the int
\* itself for an int
Count(arg, n) == IF arg.ty = "float" THEN (arg.v * n) \div arg.den ELSE arg.v

\* a float budget lies in [0, 1]
InUnit(arg) == arg.ty = "float" => (arg.v >= 0 /\ arg.v <= arg.den)

\* the sum of the two counts is within the degree
BudgetsFit(kw, n) ==
    /\ InUnit(kw.integral)
    /\ InUnit(kw.fractional)
    /\ Count(kw.integral, n) + Count(kw.fractional, n) <= n

\* C13 as stated: the fixed-point encoder is constructed, with the two
\* counts as its budgets, for every combination of budgets whose sum is
\* within the degree, and construction raises for every other combination
C13_ConstructedIffBudgetsFit ==
    Constructed("type:float")
        => IF BudgetsFit(call.kw, ctx.n)
           THEN /\ call.tag = "ok"
                /\ enc.integral = Count(call.kw.integral, ctx.n)
                /\ enc.fractional = Count(call.kw.fractional, ctx.n)
           ELSE call.tag # "ok" /\ enc = NoEnc

\* C13: every fixed-point encoder that is constructed has the two counts as
\* its budgets and their sum within the degree; construction raises
\* TypeError when a float budget lies outside [0, 1] or the sum exceeds the
\* degree; for the other combinations it succeeds exactly when the
\* constructor of the engine takes the two counts, which an engine that
\* wants them positive does not when one of them is zero or negative
C13_ConstructedIffEngineAccepts ==
    Constructed("type:float")
        => /\ call.tag = "ok"
                => /\ enc.kind = "float"
                   /\ enc.integral = Count(call.kw.integral, ctx.n)
                   /\ enc.fractional = Count(call.kw.fractional, ctx.n)
                   /\ enc.integral + enc.fractional <= ctx.n
           /\ ~BudgetsFit(call.kw, ctx.n) => (call.tag = "TypeError" /\ enc = NoEnc)
           /\ BudgetsFit(call.kw, ctx.n)
                => IF \/ engine.emptyBudget = "accept"
                      \/ /\ Count(call.kw.integral, ctx.n) > 0
                         /\ Count(call.kw.fractional, ctx.n) > 0
                   THEN call.tag = "ok"
                   ELSE call.tag = "ValueError" /\ enc = NoEnc

\* integral = 0.5 and fractional = 2 over the degree 4: two coefficients each
C13_Witness ==
    /\ Constructed("type:float")
    /\ call.kw.integral = PyFloat(2, FloatDen)
    /\ call.kw.fractional = PyInt(2)
    /\ call.tag = "ok"
    /\ enc.integral = 2
    /\ enc.fractional = 2

\* the strategy for a runtime category: the value or the type request
Strategy(ty) ==
    CASE ty \in {"int", "type:int"}         -> "int"
      [] ty \in {"float", "type:float"}     -> "float"
      [] ty \in {"ndarray", "type:ndarray"} -> "mat"
      [] OTHER                              -> "none"

IsTypeRequest(ty) == ty \in {"type:int", "type:float", "type:ndarray"}

\* C14: Encoder(...) raises the unsupported-type error (NotImplementedError)
\* exactly for what is neither an int, a float or a matrix nor one of the
\* three types; when it returns, the encoder is the integer encoder for an
\* int or the int type, the fixed-point encoder for a float or the float
\* type, the batched encoder for a matrix or the matrix type; for a type
\* the encoded result is absent, for a value it is a plaintext
C14_DispatchByCategory ==
    call.op = "new"
        => /\ call.tag = "NotImplementedError" <=> Strategy(call.plain.ty) = "none"
           /\ call.tag = "ok"
                => /\ enc.kind = Strategy(call.plain.ty)
                   /\ IsTypeRequest(call.plain.ty) <=> call.encoded = NoPlain
           /\ call.tag # "ok" => (enc = NoEnc /\ call.encoded = NoPlain)
           /\ call.kw = DefaultKwargs /\ call.plain.ty \in {"type:int", "type:float"}
                => call.tag = "ok"
           /\ call.kw = DefaultKwargs /\ call.plain.ty = "type:ndarray"
                => (call.tag = "ok" <=> (IsPrime(ctx.t) /\ ctx.t % (2 * ctx.n) = 1))

\* Encoder(1.5, context) returned a plaintext and the fixed-point encoder
C14_Witness ==
    /\ call.op = "new"
    /\ call.plain = PyFloat(6, FloatDen)
    /\ call.kw = [DefaultKwargs EXCEPT !.base = 2, !.unsigned = FALSE]
    /\ call.tag = "ok"
    /\ enc.kind = "float"
    /\ call.encoded # NoPlain

(***************************************************************************)
(* Properties of the comparison of encoders.                               *)
(***************************************************************************)
\* the fields of the descriptor of the strategy: base; base and the two
\* budgets; rows and cols
SameDescriptor(e1, e2) ==
    /\ e1.kind = e2.kind
    /\ CASE e1.kind = "int"   -> e1.base = e2.base
         [] e1.kind = "float" -> /\ e1.base = e2.base
                                 /\ e1.integral = e2.integral
                                 /\ e1.fractional = e2.fractional
         [] e1.kind = "mat"   -> e1.rows = e2.rows /\ e1.cols = e2.cols
         [] OTHER             -> TRUE

\* C15 as stated, for two encoders over the same parameters: they are equal
\* exactly when they are of the same strategy and the fields of the
\* descriptor match
C15_EqualIffDescriptor ==
    ret.op = "eq" /\ ret.self.context = ret.other.context
        => (ret.eq <=> SameDescriptor(ret.self, ret.other))

\* C15: two encoders are equal exactly when they are of the same strategy,
\* their contexts agree in degree, size of the coefficient modulus and
\* plaintext modulus, and the fields of the descriptor match, where the
\* fields of the integer encoder are the base and the unsigned flag; so two
\* encoders constructed one after the other from the same request, options
\* and context are equal
C15_EqualIffAttributes ==
    ret.op = "eq"
        => /\ ret.eq <=> /\ SameDescriptor(ret.self, ret.other)
                         /\ ret.self.kind = "int"
                                => ret.self.unsigned = ret.other.unsigned
                         /\ ret.self.context.n = ret.other.context.n
                         /\ ret.self.context.qbits = ret.other.context.qbits
                         /\ ret.self.context.t = ret.other.context.t
           /\ (ret.fresh /\ call.plain = ret.plain /\ call.kw = ret.kw
                         /\ ret.context = ctx)
                => ret.eq

\* two fixed-point encoders of base 3, constructed one after the other
C15_Witness ==
    /\ ret.op = "eq"
    /\ ret.eq
    /\ ret.fresh
    /\ ret.self.kind = "float"
    /\ ret.other.kind = "float"
    /\ ret.self.base = 3

(***************************************************************************)
(* Properties of the scheme facade.                                        *)
(***************************************************************************)
\* C16 as stated: two facades are equal exactly when they were made with
\* the same degree, coefficient modulus, plaintext modulus and security
\* level
C16_EqualIffFourFields ==
    reply.op = "eq"
        => (reply.eq <=> /\ cs.params.poly_mod_deg = cs2.params.poly_mod_deg
                         /\ cs.params.coeff_mod = cs2.params.coeff_mod
                         /\ cs.params.plain_mod = cs2.params.plain_mod
                         /\ cs.params.security = cs2.params.security)

\* 1, 2, 4, 8, ...
PowerOfTwo(k) == \E e \in 0..MaxExp : k = Pow(2, e)

\* C17 as stated: construction raises ValueError, and leaves no context and
\* no key generator, whenever the degree is not a power of two, the
\* security level is neither 128 nor 192, or the plaintext modulus is not a
\* positive integer
C17_InvalidRaisesValueError ==
    /\ cs.tag # "none"
    /\ \/ ~(cs.params.poly_mod_deg.ty = "int" /\ PowerOfTwo(cs.params.poly_mod_deg.v))
       \/ cs.params.security \notin {128, 192}
       \/ ~(cs.params.plain_mod.ty = "int" /\ cs.params.plain_mod.v > 0)
    => /\ cs.tag = "ValueError"
       /\ cs.context = Context(0, 0, 0)
       /\ cs.keygen = NoKeygen

\* the arguments of the last generate_keys pass its two assertions
KeyArgsValid == reply.args.dbc \in 1..60 /\ reply.args.eval_keys >= 1

\* the parameters of the facade allow batching
Batching == IsPrime(cs.context.t) /\ cs.context.t % (2 * cs.context.n) = 1

\* C18: generate_keys returns None for the rotation keys, with pk, sk and
\* ek, exactly when generate_galois_keys fails for parameters that are not
\* valid for batching; a failure for another reason leaves generate_keys as
\* the exception it is and no keys are returned; with parameters that allow
\* batching and no failure all four keys are returned
C18_NoneIffNotValidForBatching ==
    reply.op = "generate_keys" /\ KeyArgsValid
        => /\ (reply.tag = "ok" /\ reply.keys.gk = 0)
                <=> (reply.args.galois = "auto" /\ ~Batching)
           /\ reply.tag = "ok"
                => (reply.keys.pk > 0 /\ reply.keys.sk > 0 /\ reply.keys.ek > 0)
           /\ reply.args.galois # "auto"
                => (reply.tag = reply.args.galois /\ reply.keys = NoKeys)
           /\ reply.args.galois = "auto" /\ Batching
                => (reply.tag = "ok" /\ reply.keys.gk > 0)

\* generate_keys() over degree 4 and plaintext modulus 5 returned three keys
\* and None
C18_Witness ==
    /\ reply.op = "generate_keys"
    /\ reply.tag = "ok"
    /\ cs.context.n = 4
    /\ cs.context.t = 5
    /\ reply.args.dbc = 16
    /\ reply.keys.gk = 0
    /\ reply.keys.ek > 0

\* C19 as stated: two successive calls of generate_keys return different
\* public keys and different secret keys
C19_FreshKeysEachCall ==
    reply.op = "generate_keys" /\ reply.tag = "ok" /\ reply.before # NoKeys
        => /\ reply.keys.pk # reply.before.pk
           /\ reply.keys.sk # reply.before.sk

(***************************************************************************)
(* Properties of the rotation.                                             *)
(***************************************************************************)
\* numpy.roll(m, (r, col), (0, 1)) of a matrix m: the element at (i, j)
\* comes from (i - r, j - col), both taken modulo the shape
NpRoll(m, r, col) ==
    LET rows == m.shape[1]
        cols == m.shape[2]
    IN  [m EXCEPT !.data =
            [k \in 1..(rows * cols) |->
                m.data[((((k - 1) \div cols) - r) % rows) * cols
                           + ((((k - 1) % cols) - col) % cols) + 1]]]

\* the last statement rolled the ciphertext of a matrix of two rows by the
\* tuple (r, col), r one of -1, 0, 1
RolledByTuple ==
    /\ last.op = "roll"
    /\ last.power.ty = "tuple"
    /\ last.power.data[1] \in {0 - 1, 0, 1}
    /\ last.self.encoder.rows = 2

\* C20 as stated, for the matrices of two rows: c.roll((r, col)) decrypts
\* to what c.roll(r, axis=0).roll(col, axis=1) decrypts to and to the
\* numpy roll of the matrix c decrypts to; c.roll((0, 0)) decrypts to what c
\* decrypts to
C20_RollComposes ==
    RolledByTuple
        => LET r       == last.power.data[1]
               col     == last.power.data[2]
               rows    == CipherText_roll(last.self, PyInt(r), 0)
               both    == CipherText_roll(rows.val, PyInt(col), 1)
               decoded == CipherText_decrypt(last.res)
           IN  /\ last.tag = "ok"
               /\ both.tag = "ok"
               /\ decoded = CipherText_decrypt(both.val)
               /\ decoded.val = NpRoll(CipherText_decrypt(last.self).val, r, col)
               /\ (r = 0 /\ col = 0) => decoded = CipherText_decrypt(last.self)

\* the row shift of the last rotation: the first component of a tuple, or
\* the int on axis 0
RowShiftOutside ==
    /\ last.op = "roll"
    /\ \/ last.power.ty = "tuple" /\ last.power.data[1] \notin {0 - 1, 0, 1}
       \/ /\ last.power.ty = "int"
          /\ last.other.plain = PyInt(0)
          /\ last.power.v \notin {0 - 1, 0, 1}

\* C21: a rotation whose row shift is outside -1, 0, 1, asked for with an
\* int on axis 0 or as the first component of a tuple, raises TypeError and
\* returns no ciphertext, whatever the column shift is
C21_MultiStepRowsRejected ==
    RowShiftOutside => (last.tag = "TypeError" /\ last.res = NoCt)

\* x.roll(gk, (2, 1)) raised TypeError
C21_Witness ==
    /\ last.op = "roll"
    /\ last.power = PyTuple(2, 1)
    /\ last.self.encoder.kind = "mat"
    /\ last.tag = "TypeError"
    /\ last.res = NoCt

(***************************************************************************)
(* Properties of the serialization.                                        *)
(***************************************************************************)
\* C22 as stated: the state that is persisted is the ciphertext handle,
\* the parameters and the encoder, without the evaluator; the ciphertext
\* that pickle.loads makes of pickle.dumps(x) has the handle and the
\* parameters of x, an evaluator made anew of its parameters and an encoder
\* equal to the encoder of x, and decrypts to what x decrypts to
C22_PickleRoundTrip ==
    last.op = "pickle"
        => /\ CipherText_getstate(last.self)
                  = <<last.self.cipher, last.self.context, last.self.encoder>>
           /\ last.tag = "ok"
           /\ last.res.cipher = last.self.cipher
           /\ SEALContext_eq(last.res.context, last.self.context)
           /\ last.res.evl = Evaluator(last.res.context)
           /\ Encoder_eq(last.res.encoder, last.self.encoder)
           /\ Dec(last.res) = Dec(last.self)

(***************************************************************************)
(* Properties of the operands.                                             *)
(***************************************************************************)
\* the operand self of the last statement as the statement leaves it: its
\* handle is an input of the engine's primitives, which write to a new
\* handle, and its encoder is the object the call has used
SelfAfter == [last.self EXCEPT !.encoder = last.encoder]

AlgebraOps == {"add", "neg", "sub", "mul", "pow", "relinearize", "roll", "decrypt"}

\* C23 as stated: the ciphertext whose method the last statement ran has,
\* after the statement, the handle, the size, the encoder and the
\* parameters it had before, and decrypts to the value it decrypted to; a
\* statement that assigns y leaves x, on whichever side it stood, the
\* ciphertext it was
C23_OperandsUnchanged ==
    (last.op \in AlgebraOps /\ last.self # NoCt)
        => /\ SelfAfter.cipher = last.self.cipher
           /\ CipherText_size(SelfAfter) = CipherText_size(last.self)
           /\ SelfAfter.encoder = last.self.encoder
           /\ SelfAfter.context = last.self.context
           /\ Dec(SelfAfter) = Dec(last.self)
           /\ (last.target = "y" /\ ~(last.other.isCt /\ last.side = "right"))
                  => x = last.self
           /\ (last.target = "y" /\ last.other.isCt /\ last.side = "right")
                  => x = last.other.ct

(***************************************************************************)
(* Properties of the size.                                                 *)
(***************************************************************************)
\* the last statement returned a ciphertext
ReturnedCt == last.tag = "ok" /\ last.res # NoCt

\* C24: every ciphertext of the program has a size of at least 2; encrypt
\* returns size 2, the product of two ciphertexts is larger than 2, and
\* relinearize returns size 2 whatever the size of its operand
C24_SizeAtLeastTwo ==
    /\ x # NoCt => CipherText_size(x) >= 2
    /\ ReturnedCt => CipherText_size(last.res) >= 2
    /\ (last.op = "encrypt" /\ last.tag = "ok") => CipherText_size(last.res) = 2
    /\ (last.op = "mul" /\ last.other.isCt /\ last.tag = "ok")
           => CipherText_size(last.res) > 2
    /\ last.op = "relinearize"
           => (last.tag = "ok" /\ CipherText_size(last.res) = 2)

\* the product x * x, of size 3, was relinearized to size 2
C24_Witness ==
    /\ last.op = "relinearize"
    /\ last.self.ops = <<"mul">>
    /\ CipherText_size(last.self) = 3
    /\ last.tag = "ok"
    /\ CipherText_size(last.res) = 2

(***************************************************************************)
(* Properties of a failed encode.                                          *)
(***************************************************************************)
\* the step is an encode that raises TypeError, or a can_encode that
\* answers False, on a batched encoder
FailedEncodeStep ==
    /\ enc.kind = "mat"
    /\ \/ call'.op = "encode" /\ call'.tag = "TypeError"
       \/ /\ call'.op = "can_encode"
          /\ call'.tag = "ok"
          /\ call'.decoded.val = PyBool(FALSE)

\* the step is an encode of a matrix of ints that fills the ring, on a
\* batched encoder without a shape
ValidEncodeStep ==
    /\ enc.kind = "mat"
    /\ enc.rows <= 0
    /\ enc.cols <= 0
    /\ call'.op = "encode"
    /\ FullMatrix(call'.plain, poly_mod_deg(enc.context))

\* C25 as stated: an encode that fails on a batched encoder, and a
\* can_encode that answers False, leave rows and cols as they were, and
\* an encoder without a shape encodes a matrix that fills the ring and
\* takes its shape
C25_FailedEncodeKeepsShape ==
    [][/\ FailedEncodeStep => <<enc'.rows, enc'.cols>> = <<enc.rows, enc.cols>>
       /\ ValidEncodeStep
             => (call'.tag = "ok" /\ <<enc'.rows, enc'.cols>> = call'.plain.shape)]_vars

(***************************************************************************)
(* Properties of a batched encoder asked for with a shape.                 *)
(***************************************************************************)
\* the last call asked for the encoder of np.ndarray with rows > 0 and
\* cols > 0, over parameters that allow batching
NewWithShape ==
    /\ call.op = "new"
    /\ call.plain.ty = "type:ndarray"
    /\ call.kw.rows > 0
    /\ call.kw.cols > 0
    /\ IsPrime(ctx.t)
    /\ ctx.t % (2 * ctx.n) = 1

\* the last call was an encode on a batched encoder that holds a shape
\* filling the ring
EncodeWithShape ==
    /\ enc.kind = "mat"
    /\ enc.rows > 0
    /\ enc.cols > 0
    /\ enc.rows * enc.cols = poly_mod_deg(enc.context)
    /\ call.op = "encode"

\* C26 as stated: asked for with a shape, the batched encoder is
\* constructed with that shape when rows * cols is the degree and the
\* constructor raises TypeError when it is not; an encoder that holds such
\* a shape encodes exactly the matrices of ints of that shape
C26_ShapedConstruction ==
    /\ NewWithShape
           => IF call.kw.rows * call.kw.cols = poly_mod_deg(ctx)
              THEN /\ call.tag = "ok"
                   /\ enc.kind = "mat"
                   /\ <<enc.rows, enc.cols>> = <<call.kw.rows, call.kw.cols>>
              ELSE call.tag = "TypeError"
    /\ EncodeWithShape
           => (call.tag = "ok"
                  <=> /\ call.plain.ty = "ndarray"
                      /\ call.plain.dtype = "int"
                      /\ call.plain.shape = <<enc.rows, enc.cols>>)

====
